---- MODULE Spec2Model ----
(***************************************************************************)
(* Model of the labour-law (AZG) rules engine, src/src/lib/ai/azg-rules.ts *)
(*                                                                         *)
(* Representation of the program's values:                                 *)
(*   - a time string "HH:mm" is the pair <<HH, mm>> of its two zero-padded *)
(*     fields; split(':').map(Number) reads the fields as numbers and      *)
(*     localeCompare is the lexicographic order on the fields;             *)
(*   - a date string "YYYY-MM-DD" is the triple <<YYYY, MM, DD>>;          *)
(*   - a JavaScript number that may be fractional (hours) is the rational  *)
(*     [num, den] with den > 0; totalMinutes / 60 is [num |-> totalMinutes,*)
(*     den |-> 60].  Comparisons against the integer thresholds are exact  *)
(*     for such quotients;                                                 *)
(*   - a JavaScript number that is the result of floating-point additions  *)
(*     (the weekly total) is the IEEE-754 double itself, see               *)
(*     "JavaScript doubles" below;                                         *)
(*   - Date.getTime() is counted in minutes instead of milliseconds (the   *)
(*     strings carry no seconds, so every instant is a multiple of 60000   *)
(*     ms);                                                                *)
(*   - the message of a finding (a display string built from               *)
(*     hours.toFixed(1)) is not modelled;                                  *)
(*   - undefined (weekShifts[0]?.employeeId on an empty list) is the       *)
(*     string "undefined".                                                 *)
(***************************************************************************)
EXTENDS Integers, Sequences, FiniteSets, TLC

VARIABLES
    AZG_RULES,   \* the module-level rule object (azg-rules.ts:8-41)
    TZ,          \* the time zone of the host the engine runs on
    shifts,      \* the caller's Shift[] that is passed to the engine
    result,      \* the last call of the engine: [op, arg, value]
    frames       \* the calls in progress of callers that run side by side:
                 \* for each caller the operation, its argument, its local
                 \* variables and the place it has reached

vars == <<AZG_RULES, TZ, shifts, result, frames>>

(***************************************************************************)
(* Bounds of the model                                                     *)
(***************************************************************************)
MaxShifts == 4
MaxRestShifts == 3
MaxDays == 8
MaxWeekShifts == 4
MaxCallDays == 7
MaxRosterDays == 7
MaxPermShifts == 7
VariedShifts == 5

(***************************************************************************)
(* Rule constants, azg-rules.ts:8-41                                       *)
(***************************************************************************)
RuleValues ==
    [ MIN_DAILY_REST_HOURS      |-> 11,
      MAX_DAILY_HOURS           |-> 12,
      NORMAL_DAILY_HOURS        |-> 8,
      NORMAL_WEEKLY_HOURS       |-> 40,
      AVG_WEEKLY_MAX_HOURS      |-> 48,
      AVERAGING_PERIOD_WEEKS    |-> 17,
      MAX_WEEKLY_HOURS          |-> 60,
      NIGHT_WORK_START          |-> 22,
      NIGHT_WORK_END            |-> 5,
      MAX_NIGHT_SHIFT_HOURS     |-> 10,
      BREAK_THRESHOLD_HOURS     |-> 6,
      MIN_BREAK_MINUTES         |-> 30,
      MAX_CONSECUTIVE_WORK_DAYS |-> 6 ]

(***************************************************************************)
(* JavaScript numbers                                                      *)
(***************************************************************************)
Rat(n, d) == [num |-> n, den |-> d]

\* a / k for a number a and a positive integer k
Div(a, k) == Rat(a, k)

\* r > k and r < k for a rational r (den > 0) and an integer k
Gt(r, k) == r.num > k * r.den
Lt(r, k) == r.num < k * r.den

Max(a, b) == IF a >= b THEN a ELSE b

(***************************************************************************)
(* JavaScript doubles.  Every double the weekly total can take is a        *)
(* multiple of 2^-58 (a quotient of minutes by 60 is at least 1/60 in      *)
(* size, so its 53 significant bits end at 2^-58 or above), so a double is *)
(* the record [neg, a, b, c] of its sign and of the three limbs of its     *)
(* size in units of 2^-58: size = (a * 2^44 + b * 2^22 + c) * 2^-58, with  *)
(* b, c < 2^22 and a < 2^30.                                               *)
(***************************************************************************)
Limb == 2^22

\* the number of binary digits of x, 0 <= x < 2^32
BitLen2(x)  == IF x >= 2 THEN 2 ELSE x
BitLen4(x)  == IF x >= 4 THEN 2 + BitLen2(x \div 4) ELSE BitLen2(x)
BitLen8(x)  == IF x >= 16 THEN 4 + BitLen4(x \div 16) ELSE BitLen4(x)
BitLen16(x) == IF x >= 256 THEN 8 + BitLen8(x \div 256) ELSE BitLen8(x)
BitLen(x)   == IF x >= 65536 THEN 16 + BitLen16(x \div 65536) ELSE BitLen16(x)

\* the limbs a, b, c after the carries out of b and c
Carry(a, b, c) ==
    LET b1 == b + c \div Limb
    IN  [a |-> a + b1 \div Limb, b |-> b1 % Limb, c |-> c % Limb]

\* the size a, b, c (b, c < 2^22) plus the fraction remNum / remDen of a
\* unit, rounded to 53 significant bits, ties to even; a size whose low limb
\* is 0 has at most 52 digits and is not changed
Round53(a, b, c, remNum, remDen) ==
    IF c = 0 /\ remNum = 0 THEN [a |-> a, b |-> b, c |-> c] ELSE
    LET len   == IF a > 0 THEN 44 + BitLen(a)
                 ELSE IF b > 0 THEN 22 + BitLen(b) ELSE BitLen(c)
        drop  == IF len > 53 THEN len - 53 ELSE 0
        unit  == 2^drop
        low   == c % unit
        twice == 2 * (low * remDen + remNum)
        full  == unit * remDen
        odd   == (c \div unit) % 2 = 1
        up    == twice > full \/ (twice = full /\ odd)
    IN  Carry(a, b, c - low + (IF up THEN unit ELSE 0))

DblZero == [neg |-> FALSE, a |-> 0, b |-> 0, c |-> 0]

\* the double n / k of two integers, 0 < k < 512 and |n| < 2^17
ToDouble(r) ==
    LET k   == r.den
        m   == IF r.num < 0 THEN -r.num ELSE r.num
        top == m * 2^14
        r1  == top % k
        r2  == (r1 * Limb) % k
        r3  == (r2 * Limb) % k
        mag == Round53(top \div k, (r1 * Limb) \div k, (r2 * Limb) \div k, r3, k)
    IN  [neg |-> r.num < 0, a |-> mag.a, b |-> mag.b, c |-> mag.c]

\* the size of x is less than the size of y
MagLess(x, y) ==
    \/ x.a < y.a
    \/ x.a = y.a /\ x.b < y.b
    \/ x.a = y.a /\ x.b = y.b /\ x.c < y.c

\* the size of x less the size of y, for y not larger than x
MagMinus(x, y) ==
    LET c1 == x.c - y.c
        bc == IF c1 < 0 THEN 1 ELSE 0
        b1 == x.b - y.b - bc
        bb == IF b1 < 0 THEN 1 ELSE 0
    IN  [a |-> x.a - y.a - bb,
         b |-> IF b1 < 0 THEN b1 + Limb ELSE b1,
         c |-> IF c1 < 0 THEN c1 + Limb ELSE c1]

\* x + y in double arithmetic
DblAdd(x, y) ==
    IF x.neg = y.neg
    THEN LET sum == Carry(x.a + y.a, x.b + y.b, x.c + y.c)
             mag == Round53(sum.a, sum.b, sum.c, 0, 1)
         IN  [neg |-> x.neg, a |-> mag.a, b |-> mag.b, c |-> mag.c]
    ELSE IF MagLess(x, y)
    THEN LET dif == MagMinus(y, x)
             mag == Round53(dif.a, dif.b, dif.c, 0, 1)
         IN  [neg |-> y.neg, a |-> mag.a, b |-> mag.b, c |-> mag.c]
    ELSE LET dif == MagMinus(x, y)
             mag == Round53(dif.a, dif.b, dif.c, 0, 1)
         IN  [neg |-> x.neg /\ (dif.a + dif.b + dif.c > 0),
              a |-> mag.a, b |-> mag.b, c |-> mag.c]

\* x > k for a double x and an integer k >= 0
DblGt(x, k) ==
    /\ ~x.neg
    /\ \/ x.a > k * 2^14
       \/ x.a = k * 2^14 /\ (x.b > 0 \/ x.c > 0)

(***************************************************************************)
(* Strings: "HH:mm" and "YYYY-MM-DD"                                       *)
(***************************************************************************)
\* String.prototype.localeCompare on two strings of equal layout (zero-padded
\* numeric fields): -1, 0 or 1 by the first field that differs
RECURSIVE localeCompare(_, _)
localeCompare(a, b) ==
    IF Len(a) = 0 THEN 0
    ELSE IF Head(a) < Head(b) THEN -1
    ELSE IF Head(a) > Head(b) THEN 1
    ELSE localeCompare(Tail(a), Tail(b))

\* number of days from 1970-01-01 to the given civil date (what Date.parse
\* computes for "YYYY-MM-DD", in days)
EpochDay(date) ==
    LET y   == IF date[2] <= 2 THEN date[1] - 1 ELSE date[1]
        era == y \div 400
        yoe == y - era * 400
        mp  == (date[2] + 9) % 12
        doy == (153 * mp + 2) \div 5 + date[3] - 1
        doe == yoe * 365 + yoe \div 4 - yoe \div 100 + doy
    IN  era * 146097 + doe - 719468

\* new Date("YYYY-MM-DD").getTime(): UTC midnight of the date, in minutes
ParseDate(date) == EpochDay(date) * 1440

\* The host's time zone decides how new Date("YYYY-MM-DDTHH:mm") and
\* Date.prototype.setDate read the clock.  Two hosts are modelled: one on
\* UTC and one on Europe/Vienna, whose offset is 120 minutes from
\* 2024-03-31T01:00Z up to 2024-10-27T01:00Z and 60 minutes before and
\* after (the rule is valid for the instants between 2023-10-29 and
\* 2025-03-30, which hold every date of the model).
ZoneSet == { "UTC", "Europe/Vienna" }

DstStart == EpochDay(<<2024, 3, 31>>) * 1440 + 60
DstEnd   == EpochDay(<<2024, 10, 27>>) * 1440 + 60

\* the zone's offset from UTC at an instant, in minutes
ZoneOffset(utc) ==
    IF TZ = "Europe/Vienna"
    THEN (IF utc >= DstStart /\ utc < DstEnd THEN 120 ELSE 60)
    ELSE 0

\* the instant of a local wall-clock time; a time skipped by the change to
\* summer time, and a time repeated by the change back, is read with the
\* offset before the change
LocalToUtc(local) ==
    IF TZ = "Europe/Vienna"
    THEN (IF local - 120 < DstStart THEN local - 60
          ELSE IF local - 120 < DstEnd THEN local - 120
          ELSE local - 60)
    ELSE local

\* new Date("YYYY-MM-DDTHH:mm").getTime(): the instant of the local
\* wall-clock time, in minutes
ParseLocalDateTime(date, time) ==
    LocalToUtc(EpochDay(date) * 1440 + time[1] * 60 + time[2])

\* d.setDate(d.getDate() + n): n days later on the local calendar, at the
\* same local time of day
AddLocalDays(utc, n) == LocalToUtc(utc + ZoneOffset(utc) + n * 1440)

(***************************************************************************)
(* calculateShiftHours, azg-rules.ts:78-92                                 *)
(***************************************************************************)
calculateShiftHours_NoWrap(shift) ==
    LET startMinutes == shift.startTime[1] * 60 + shift.startTime[2]
        endMinutes   == shift.endTime[1] * 60 + shift.endTime[2]
    IN  Div(endMinutes - startMinutes - shift.breakMinutes, 60)

calculateShiftHours_Clamped(shift) ==
    LET startMinutes == shift.startTime[1] * 60 + shift.startTime[2]
        endMinutes0  == shift.endTime[1] * 60 + shift.endTime[2]
        endMinutes   == IF endMinutes0 < startMinutes
                        THEN endMinutes0 + 24 * 60
                        ELSE endMinutes0
        totalMinutes == endMinutes - startMinutes - shift.breakMinutes
    IN  Div(Max(0, totalMinutes), 60)

calculateShiftHours_WrapEqual(shift) ==
    LET startMinutes == shift.startTime[1] * 60 + shift.startTime[2]
        endMinutes0  == shift.endTime[1] * 60 + shift.endTime[2]
        endMinutes   == IF endMinutes0 <= startMinutes
                        THEN endMinutes0 + 24 * 60
                        ELSE endMinutes0
        totalMinutes == endMinutes - startMinutes - shift.breakMinutes
    IN  Div(totalMinutes, 60)

calculateShiftHours(shift) ==
    LET startH == shift.startTime[1]
        startM == shift.startTime[2]
        endH   == shift.endTime[1]
        endM   == shift.endTime[2]
        startMinutes == startH * 60 + startM
        endMinutes0  == endH * 60 + endM
        endMinutes   == IF endMinutes0 < startMinutes
                        THEN endMinutes0 + 24 * 60
                        ELSE endMinutes0
        totalMinutes == endMinutes - startMinutes - shift.breakMinutes
    IN  Div(totalMinutes, 60)

(***************************************************************************)
(* isNightWork, azg-rules.ts:97-105                                        *)
(***************************************************************************)
isNightWork_Minutes(shift) ==
    LET startH == shift.startTime[1]
        endH   == shift.endTime[1]
    IN  \/ startH >= AZG_RULES.NIGHT_WORK_START
        \/ endH * 60 + shift.endTime[2] <= AZG_RULES.NIGHT_WORK_END * 60
        \/ endH < startH

isNightWork(shift) ==
    LET startH == shift.startTime[1]
        endH   == shift.endTime[1]
    IN  \/ startH >= AZG_RULES.NIGHT_WORK_START
        \/ endH <= AZG_RULES.NIGHT_WORK_END
        \/ endH < startH

(***************************************************************************)
(* calculateRestHours, azg-rules.ts:110-120                                *)
(***************************************************************************)
calculateRestHours_OvernightEnd(shift1, shift2) ==
    LET overnight == localeCompare(shift1.endTime, shift1.startTime) < 0
        date1  == ParseLocalDateTime(shift1.date, shift1.endTime)
                      + (IF overnight THEN 1440 ELSE 0)
        date2  == ParseLocalDateTime(shift2.date, shift2.startTime)
        diffMs == date2 - date1
    IN  Div(diffMs, 60)

calculateRestHours(shift1, shift2) ==
    LET date1  == ParseLocalDateTime(shift1.date, shift1.endTime)
        date2  == ParseLocalDateTime(shift2.date, shift2.startTime)
        diffMs == date2 - date1
    IN  Div(diffMs, 60)

(***************************************************************************)
(* validateShift, azg-rules.ts:125-175                                     *)
(***************************************************************************)
\* azg-rules.ts:129-142
CheckMaxDailyHours_Ge(shift, hours) ==
    IF ~Lt(hours, AZG_RULES.MAX_DAILY_HOURS)
    THEN << [ type     |-> "MAX_DAILY_HOURS",
              severity |-> "violation",
              details  |-> [ actual     |-> hours,
                             limit      |-> AZG_RULES.MAX_DAILY_HOURS,
                             date       |-> shift.date,
                             employeeId |-> shift.employeeId ] ] >>
    ELSE << >>

CheckMaxDailyHours(shift, hours) ==
    IF Gt(hours, AZG_RULES.MAX_DAILY_HOURS)
    THEN << [ type     |-> "MAX_DAILY_HOURS",
              severity |-> "violation",
              details  |-> [ actual     |-> hours,
                             limit      |-> AZG_RULES.MAX_DAILY_HOURS,
                             date       |-> shift.date,
                             employeeId |-> shift.employeeId ] ] >>
    ELSE << >>

\* azg-rules.ts:144-157
CheckNightWorkLimit_AnyShift(shift, hours) ==
    IF Gt(hours, AZG_RULES.MAX_NIGHT_SHIFT_HOURS)
    THEN << [ type     |-> "NIGHT_WORK_LIMIT",
              severity |-> "violation",
              details  |-> [ actual     |-> hours,
                             limit      |-> AZG_RULES.MAX_NIGHT_SHIFT_HOURS,
                             date       |-> shift.date,
                             employeeId |-> shift.employeeId ] ] >>
    ELSE << >>

CheckNightWorkLimit(shift, hours) ==
    IF isNightWork(shift) /\ Gt(hours, AZG_RULES.MAX_NIGHT_SHIFT_HOURS)
    THEN << [ type     |-> "NIGHT_WORK_LIMIT",
              severity |-> "violation",
              details  |-> [ actual     |-> hours,
                             limit      |-> AZG_RULES.MAX_NIGHT_SHIFT_HOURS,
                             date       |-> shift.date,
                             employeeId |-> shift.employeeId ] ] >>
    ELSE << >>

\* azg-rules.ts:159-172
CheckRequiredBreak_Le(shift, hours) ==
    IF Gt(hours, AZG_RULES.BREAK_THRESHOLD_HOURS)
       /\ shift.breakMinutes <= AZG_RULES.MIN_BREAK_MINUTES
    THEN << [ type     |-> "MISSING_BREAK",
              severity |-> "warning",
              details  |-> [ actual     |-> Rat(shift.breakMinutes, 1),
                             limit      |-> AZG_RULES.MIN_BREAK_MINUTES,
                             date       |-> shift.date,
                             employeeId |-> shift.employeeId ] ] >>
    ELSE << >>

\* a check that reports the worked hours next to the minimum break
CheckRequiredBreak_ActualHours(shift, hours) ==
    IF Gt(hours, AZG_RULES.BREAK_THRESHOLD_HOURS)
       /\ shift.breakMinutes < AZG_RULES.MIN_BREAK_MINUTES
    THEN << [ type     |-> "MISSING_BREAK",
              severity |-> "warning",
              details  |-> [ actual     |-> hours,
                             limit      |-> AZG_RULES.MIN_BREAK_MINUTES,
                             date       |-> shift.date,
                             employeeId |-> shift.employeeId ] ] >>
    ELSE << >>

CheckRequiredBreak(shift, hours) ==
    IF Gt(hours, AZG_RULES.BREAK_THRESHOLD_HOURS)
       /\ shift.breakMinutes < AZG_RULES.MIN_BREAK_MINUTES
    THEN << [ type     |-> "MISSING_BREAK",
              severity |-> "warning",
              details  |-> [ actual     |-> Rat(shift.breakMinutes, 1),
                             limit      |-> AZG_RULES.MIN_BREAK_MINUTES,
                             date       |-> shift.date,
                             employeeId |-> shift.employeeId ] ] >>
    ELSE << >>

validateShift_BreakFirst(shift) ==
    LET hours == calculateShiftHours(shift)
    IN  CheckRequiredBreak(shift, hours)
        \o CheckMaxDailyHours(shift, hours)
        \o CheckNightWorkLimit(shift, hours)

validateShift_NightFirst(shift) ==
    LET hours == calculateShiftHours(shift)
    IN  CheckNightWorkLimit(shift, hours)
        \o CheckMaxDailyHours(shift, hours)
        \o CheckRequiredBreak(shift, hours)

validateShift(shift) ==
    LET hours == calculateShiftHours(shift)
    IN  CheckMaxDailyHours(shift, hours)
        \o CheckNightWorkLimit(shift, hours)
        \o CheckRequiredBreak(shift, hours)

(***************************************************************************)
(* validateRestTime, azg-rules.ts:180-209                                  *)
(***************************************************************************)
\* the comparator of the sort, azg-rules.ts:184-188
compareShifts_StartOnly(a, b) == localeCompare(a.startTime, b.startTime)

compareShifts(a, b) ==
    LET dateCompare == localeCompare(a.date, b.date)
    IN  IF dateCompare # 0 THEN dateCompare
        ELSE localeCompare(a.startTime, b.startTime)

\* Array.prototype.sort is stable: x goes behind every element that does not
\* compare greater than it
RECURSIVE InsertShift_Unstable(_, _)
InsertShift_Unstable(sorted, x) ==
    IF Len(sorted) = 0 THEN <<x>>
    ELSE IF compareShifts(sorted[Len(sorted)], x) < 0 THEN Append(sorted, x)
    ELSE Append(InsertShift_Unstable(SubSeq(sorted, 1, Len(sorted) - 1), x),
                sorted[Len(sorted)])

RECURSIVE InsertShift(_, _)
InsertShift(sorted, x) ==
    IF Len(sorted) = 0 THEN <<x>>
    ELSE IF compareShifts(sorted[Len(sorted)], x) <= 0 THEN Append(sorted, x)
    ELSE Append(InsertShift(SubSeq(sorted, 1, Len(sorted) - 1), x),
                sorted[Len(sorted)])

\* [...shifts].sort(compareShifts): a sorted copy, the argument is not changed
RECURSIVE SortShifts(_)
SortShifts(list) ==
    IF Len(list) = 0 THEN << >>
    ELSE InsertShift(SortShifts(SubSeq(list, 1, Len(list) - 1)), list[Len(list)])

\* one iteration of the loop, azg-rules.ts:191-205 (a, b are sorted[i], sorted[i+1])
CheckRestTime_Le(a, b) ==
    LET restHours == calculateRestHours(a, b)
    IN  IF ~Gt(restHours, AZG_RULES.MIN_DAILY_REST_HOURS)
        THEN << [ type     |-> "MIN_REST_TIME",
                  severity |-> "violation",
                  details  |-> [ actual     |-> restHours,
                                 limit      |-> AZG_RULES.MIN_DAILY_REST_HOURS,
                                 date       |-> b.date,
                                 employeeId |-> a.employeeId ] ] >>
        ELSE << >>

\* an iteration that drops a pair whose later shift starts at or before the
\* end of the earlier one
CheckRestTime_RejectOverlap(a, b) ==
    LET restHours == calculateRestHours(a, b)
    IN  IF Lt(restHours, AZG_RULES.MIN_DAILY_REST_HOURS) /\ Gt(restHours, 0)
        THEN << [ type     |-> "MIN_REST_TIME",
                  severity |-> "violation",
                  details  |-> [ actual     |-> restHours,
                                 limit      |-> AZG_RULES.MIN_DAILY_REST_HOURS,
                                 date       |-> b.date,
                                 employeeId |-> a.employeeId ] ] >>
        ELSE << >>

\* an iteration that compares the shifts of one employee only
CheckRestTime_SameEmployee(a, b) ==
    LET restHours == calculateRestHours(a, b)
    IN  IF a.employeeId = b.employeeId
           /\ Lt(restHours, AZG_RULES.MIN_DAILY_REST_HOURS)
        THEN << [ type     |-> "MIN_REST_TIME",
                  severity |-> "violation",
                  details  |-> [ actual     |-> restHours,
                                 limit      |-> AZG_RULES.MIN_DAILY_REST_HOURS,
                                 date       |-> b.date,
                                 employeeId |-> a.employeeId ] ] >>
        ELSE << >>

CheckRestTime(a, b) ==
    LET restHours == calculateRestHours(a, b)
    IN  IF Lt(restHours, AZG_RULES.MIN_DAILY_REST_HOURS)
        THEN << [ type     |-> "MIN_REST_TIME",
                  severity |-> "violation",
                  details  |-> [ actual     |-> restHours,
                                 limit      |-> AZG_RULES.MIN_DAILY_REST_HOURS,
                                 date       |-> b.date,
                                 employeeId |-> a.employeeId ] ] >>
        ELSE << >>

\* the loop from index i on (1-based), azg-rules.ts:190-206
RECURSIVE RestTimeLoop(_, _)
RestTimeLoop(sorted, i) ==
    IF i >= Len(sorted) THEN << >>
    ELSE CheckRestTime(sorted[i], sorted[i + 1]) \o RestTimeLoop(sorted, i + 1)

\* the loop run over the list as passed
validateRestTime_Unsorted(list) == RestTimeLoop(list, 1)

validateRestTime(list) == RestTimeLoop(SortShifts(list), 1)

\* const sorted = [...shifts].sort(...), azg-rules.ts:184: the sorted array
\* and the argument array as the statement leaves it
SortedCopy_InPlace(list) ==
    [ sorted |-> SortShifts(list), argument |-> SortShifts(list) ]

SortedCopy(list) ==
    [ sorted |-> SortShifts(list), argument |-> list ]

(***************************************************************************)
(* validateWeeklyHours, azg-rules.ts:214-255                               *)
(***************************************************************************)
\* azg-rules.ts:217-224
WeekShifts(list, weekStart) ==
    LET weekStartDate == ParseDate(weekStart)
        weekEndDate   == AddLocalDays(ParseDate(weekStart), 6)
    IN  SelectSeq(list, LAMBDA s :
            LET shiftDate == ParseDate(s.date)
            IN  shiftDate >= weekStartDate /\ shiftDate <= weekEndDate)

\* weekShifts.reduce((sum, shift) => sum + calculateShiftHours(shift), 0),
\* azg-rules.ts:226
RECURSIVE TotalHours(_)
TotalHours(weekShifts) ==
    IF Len(weekShifts) = 0 THEN DblZero
    ELSE DblAdd(TotalHours(SubSeq(weekShifts, 1, Len(weekShifts) - 1)),
                ToDouble(calculateShiftHours(weekShifts[Len(weekShifts)])))

\* weekShifts[0]?.employeeId
FirstEmployeeId(list) ==
    IF Len(list) = 0 THEN "undefined" ELSE list[1].employeeId

\* azg-rules.ts:228-252
CheckWeeklyHours(totalHours, weekShifts, weekStart) ==
    IF DblGt(totalHours, AZG_RULES.MAX_WEEKLY_HOURS)
    THEN << [ type     |-> "MAX_WEEKLY_HOURS",
              severity |-> "violation",
              details  |-> [ actual     |-> totalHours,
                             limit      |-> AZG_RULES.MAX_WEEKLY_HOURS,
                             date       |-> weekStart,
                             employeeId |-> FirstEmployeeId(weekShifts) ] ] >>
    ELSE IF DblGt(totalHours, AZG_RULES.NORMAL_WEEKLY_HOURS)
    THEN << [ type     |-> "MAX_WEEKLY_HOURS",
              severity |-> "warning",
              details  |-> [ actual     |-> totalHours,
                             limit      |-> AZG_RULES.NORMAL_WEEKLY_HOURS,
                             date       |-> weekStart,
                             employeeId |-> FirstEmployeeId(weekShifts) ] ] >>
    ELSE << >>

\* a reduce without its initial value throws a TypeError on an empty array
validateWeeklyHours_ReduceNoInit(list, weekStart) ==
    LET weekShifts == WeekShifts(list, weekStart)
    IN  IF Len(weekShifts) = 0 THEN << "TypeError" >>
        ELSE CheckWeeklyHours(TotalHours(weekShifts), weekShifts, weekStart)

validateWeeklyHours(list, weekStart) ==
    LET weekShifts == WeekShifts(list, weekStart)
        totalHours == TotalHours(weekShifts)
    IN  CheckWeeklyHours(totalHours, weekShifts, weekStart)

(***************************************************************************)
(* validateConsecutiveDays, azg-rules.ts:260-293                           *)
(***************************************************************************)
\* shifts.map(s => s.date)
RECURSIVE MapDate(_)
MapDate(list) ==
    IF Len(list) = 0 THEN << >>
    ELSE <<list[1].date>> \o MapDate(Tail(list))

\* [...new Set(dates)]: the distinct values in order of first occurrence
RECURSIVE UniqueDates(_)
UniqueDates(dates) ==
    IF Len(dates) = 0 THEN << >>
    ELSE LET init == UniqueDates(SubSeq(dates, 1, Len(dates) - 1))
             last == dates[Len(dates)]
         IN  IF \E k \in 1..Len(init) : init[k] = last THEN init
             ELSE Append(init, last)

\* .sort() without comparator: ascending string order
RECURSIVE InsertDate(_, _)
InsertDate(sorted, x) ==
    IF Len(sorted) = 0 THEN <<x>>
    ELSE IF localeCompare(sorted[Len(sorted)], x) <= 0 THEN Append(sorted, x)
    ELSE Append(InsertDate(SubSeq(sorted, 1, Len(sorted) - 1), x),
                sorted[Len(sorted)])

RECURSIVE SortDates(_)
SortDates(dates) ==
    IF Len(dates) = 0 THEN << >>
    ELSE InsertDate(SortDates(SubSeq(dates, 1, Len(dates) - 1)), dates[Len(dates)])

\* azg-rules.ts:264
WorkDates_NoSet(list) == SortDates(MapDate(list))

WorkDates(list) == SortDates(UniqueDates(MapDate(list)))

\* the employee of the first shift of the list on the given date
DateOwner(list, date) ==
    list[CHOOSE k \in 1..Len(list) :
            /\ list[k].date = date
            /\ \A l \in 1..(k - 1) : list[l].date # date].employeeId

\* the loop from index i on (1-based: i is the code's i + 1) with the
\* counter's value on entry, azg-rules.ts:267-290
RECURSIVE ConsecutiveLoop_DateOwner(_, _, _, _)
ConsecutiveLoop_DateOwner(workDates, i, consecutive, list) ==
    IF i > Len(workDates) THEN << >>
    ELSE
      LET prev     == ParseDate(workDates[i - 1])
          curr     == ParseDate(workDates[i])
          diffDays == Div(curr - prev, 1440)
      IN  IF diffDays.num = 1 * diffDays.den
          THEN (IF consecutive + 1 > AZG_RULES.MAX_CONSECUTIVE_WORK_DAYS
                THEN << [ type     |-> "CONSECUTIVE_DAYS",
                          severity |-> "violation",
                          details  |-> [ actual     |-> Rat(consecutive + 1, 1),
                                         limit      |-> AZG_RULES.MAX_CONSECUTIVE_WORK_DAYS,
                                         date       |-> workDates[i],
                                         employeeId |-> DateOwner(list, workDates[i]) ] ] >>
                ELSE << >>)
               \o ConsecutiveLoop_DateOwner(workDates, i + 1, consecutive + 1, list)
          ELSE ConsecutiveLoop_DateOwner(workDates, i + 1, 1, list)

RECURSIVE ConsecutiveLoop(_, _, _, _)
ConsecutiveLoop(workDates, i, consecutive, list) ==
    IF i > Len(workDates) THEN << >>
    ELSE
      LET prev     == ParseDate(workDates[i - 1])
          curr     == ParseDate(workDates[i])
          diffDays == Div(curr - prev, 1440)
      IN  IF diffDays.num = 1 * diffDays.den
          THEN (IF consecutive + 1 > AZG_RULES.MAX_CONSECUTIVE_WORK_DAYS
                THEN << [ type     |-> "CONSECUTIVE_DAYS",
                          severity |-> "violation",
                          details  |-> [ actual     |-> Rat(consecutive + 1, 1),
                                         limit      |-> AZG_RULES.MAX_CONSECUTIVE_WORK_DAYS,
                                         date       |-> workDates[i],
                                         employeeId |-> FirstEmployeeId(list) ] ] >>
                ELSE << >>)
               \o ConsecutiveLoop(workDates, i + 1, consecutive + 1, list)
          ELSE ConsecutiveLoop(workDates, i + 1, 1, list)

validateConsecutiveDays(list) == ConsecutiveLoop(WorkDates(list), 2, 1, list)

\* one iteration of the loop, azg-rules.ts:268-289: the counter after it and
\* what it pushes
ConsecutiveStep(workDates, i, consecutive, list) ==
    LET prev     == ParseDate(workDates[i - 1])
        curr     == ParseDate(workDates[i])
        diffDays == Div(curr - prev, 1440)
    IN  IF diffDays.num = 1 * diffDays.den
        THEN [ consecutive |-> consecutive + 1,
               found |-> IF consecutive + 1 > AZG_RULES.MAX_CONSECUTIVE_WORK_DAYS
                         THEN << [ type     |-> "CONSECUTIVE_DAYS",
                                   severity |-> "violation",
                                   details  |-> [ actual     |-> Rat(consecutive + 1, 1),
                                                  limit      |-> AZG_RULES.MAX_CONSECUTIVE_WORK_DAYS,
                                                  date       |-> workDates[i],
                                                  employeeId |-> FirstEmployeeId(list) ] ] >>
                         ELSE << >> ]
        ELSE [ consecutive |-> 1, found |-> << >> ]

(***************************************************************************)
(* checkFullCompliance, azg-rules.ts:298-330                               *)
(***************************************************************************)
\* for (const shift of shifts) allViolations.push(...validateShift(shift)),
\* azg-rules.ts:305-308
\* a loop that holds the worked time of all shifts of the date against the
\* daily maximum
RECURSIVE DayMinutes_PerDay(_, _, _)
DayMinutes_PerDay(list, date, n) ==
    IF n = 0 THEN 0
    ELSE DayMinutes_PerDay(list, date, n - 1)
            + (IF list[n].date = date
               THEN (calculateShiftHours(list[n]).num * 60)
                        \div calculateShiftHours(list[n]).den
               ELSE 0)

RECURSIVE ValidateEachFrom_PerDay(_, _)
ValidateEachFrom_PerDay(list, k) ==
    IF k > Len(list) THEN << >>
    ELSE LET hours == calculateShiftHours(list[k])
         IN  CheckMaxDailyHours(list[k],
                                Div(DayMinutes_PerDay(list, list[k].date, Len(list)), 60))
             \o CheckNightWorkLimit(list[k], hours)
             \o CheckRequiredBreak(list[k], hours)
             \o ValidateEachFrom_PerDay(list, k + 1)

ValidateEach_PerDay(list) == ValidateEachFrom_PerDay(list, 1)

RECURSIVE ValidateEach(_)
ValidateEach(list) ==
    IF Len(list) = 0 THEN << >>
    ELSE validateShift(Head(list)) \o ValidateEach(Tail(list))

\* azg-rules.ts:303-314
CollectViolations_SortedOrder(list) ==
    ValidateEach(SortShifts(list)) \o validateRestTime(list)
        \o validateConsecutiveDays(list)

CollectViolations_WithWeekly(list) ==
    ValidateEach(list) \o validateRestTime(list) \o validateConsecutiveDays(list)
        \o (IF Len(list) = 0 THEN << >>
            ELSE validateWeeklyHours(list, list[1].date))

CollectViolations(list) ==
    ValidateEach(list) \o validateRestTime(list) \o validateConsecutiveDays(list)

\* allViolations.filter(v => v.severity === severity).length, azg-rules.ts:317-318
CountSeverity(allViolations, severity) ==
    Len(SelectSeq(allViolations, LAMBDA v : v.severity = severity))

\* azg-rules.ts:320-323
ComputeScore_NoClamp(criticalViolations, warnings) ==
    100 - criticalViolations * 20 - warnings * 5

ComputeScore(criticalViolations, warnings) ==
    Max(0, 100 - criticalViolations * 20 - warnings * 5)

checkFullCompliance_AnyFinding(list) ==
    LET allViolations      == CollectViolations(list)
        criticalViolations == CountSeverity(allViolations, "violation")
        warnings           == CountSeverity(allViolations, "warning")
    IN  [ isCompliant |-> Len(allViolations) = 0,
          violations  |-> allViolations,
          score       |-> ComputeScore(criticalViolations, warnings) ]

checkFullCompliance(list) ==
    LET allViolations      == CollectViolations(list)
        criticalViolations == CountSeverity(allViolations, "violation")
        warnings           == CountSeverity(allViolations, "warning")
    IN  [ isCompliant |-> criticalViolations = 0,
          violations  |-> allViolations,
          score       |-> ComputeScore(criticalViolations, warnings) ]

(***************************************************************************)
(* The callers of the engine.  The engine keeps no state of its own: the   *)
(* state is the rule object, the caller's shift list and the value the     *)
(* last call returned.                                                     *)
(***************************************************************************)
NoResult == [op |-> "none", arg |-> << >>, value |-> << >>]

\* the callers that may have a call in progress at the same time, and the
\* frame of a caller that has none
Callers   == { "c1", "c2" }
IdleFrame == [ pc |-> "idle", op |-> "none", arg |-> << >>, sorted |-> << >>,
               workDates |-> << >>, i |-> 0, consecutive |-> 0,
               violations |-> << >>, value |-> << >> ]
NoFrames  == [ c \in Callers |-> IdleFrame ]

MkShift(id, date, startTime, endTime, breakMinutes, employeeId) ==
    [ id           |-> id,
      date         |-> date,
      startTime    |-> startTime,
      endTime      |-> endTime,
      breakMinutes |-> breakMinutes,
      employeeId   |-> employeeId ]

\* the shifts a caller composes lists of: the day shift 08:00-16:00 and the
\* night shift 20:00-09:30, with and without the mandatory break, on the
\* two days around the end of February 2024.  Every zone of ZoneSet keeps
\* one offset over these dates and the weeks that start on them, so the
\* results are the same on every host and one host stands for all.
DateSet      == { <<2024, 2, 29>>, <<2024, 3, 1>> }
ShiftTimeSet == { << <<8, 0>>, <<16, 0>> >>, << <<20, 0>>, <<9, 30>> >> }
BreakSet     == { 0, 30 }
EmployeeSet  == { "e1" }

\* the shifts a caller passes singly: every hour of the day, minutes at and
\* next to the full and the half hour, breaks at and next to 30 minutes
HourSet        == 0..23
MinuteSet      == { 0, 1, 30, 59 }
TimeSet        == HourSet \X MinuteSet
SingleBreakSet == { 0, 29, 30, 31, 60 }
SingleDateSet  == { <<2024, 2, 29>> }
SingleEmployeeSet == { "e1", "e2" }

TypeOK ==
    /\ AZG_RULES = RuleValues
    /\ Len(shifts) <= MaxShifts

Init ==
    /\ AZG_RULES = RuleValues
    /\ TZ = "UTC"
    /\ shifts = << >>
    /\ result = NoResult
    /\ frames = NoFrames

\* the caller composes its list; a report of the list before is discarded
AddShift ==
    /\ Len(shifts) < MaxShifts
    /\ \E date \in DateSet, times \in ShiftTimeSet,
          breakMinutes \in BreakSet, employeeId \in EmployeeSet :
          shifts' = Append(shifts, MkShift(Len(shifts) + 1, date, times[1],
                                           times[2], breakMinutes, employeeId))
    /\ result' = NoResult
    /\ UNCHANGED <<AZG_RULES, TZ, frames>>

CallCalculateShiftHours ==
    /\ \E i \in 1..Len(shifts) :
          result' = [ op    |-> "calculateShiftHours",
                      arg   |-> shifts[i],
                      value |-> calculateShiftHours(shifts[i]) ]
    /\ UNCHANGED <<AZG_RULES, TZ, shifts, frames>>

CallIsNightWork ==
    /\ \E i \in 1..Len(shifts) :
          result' = [ op    |-> "isNightWork",
                      arg   |-> shifts[i],
                      value |-> isNightWork(shifts[i]) ]
    /\ UNCHANGED <<AZG_RULES, TZ, shifts, frames>>

CallValidateShift ==
    /\ \E i \in 1..Len(shifts) :
          result' = [ op    |-> "validateShift",
                      arg   |-> shifts[i],
                      value |-> validateShift(shifts[i]) ]
    /\ UNCHANGED <<AZG_RULES, TZ, shifts, frames>>

CallValidateRestTime ==
    /\ result' = [ op    |-> "validateRestTime",
                   arg   |-> shifts,
                   value |-> validateRestTime(shifts) ]
    /\ UNCHANGED <<AZG_RULES, TZ, shifts, frames>>

CallValidateWeeklyHours ==
    /\ \E weekStart \in DateSet :
          result' = [ op    |-> "validateWeeklyHours",
                      arg   |-> <<shifts, weekStart>>,
                      value |-> validateWeeklyHours(shifts, weekStart) ]
    /\ UNCHANGED <<AZG_RULES, TZ, shifts, frames>>

CallValidateConsecutiveDays ==
    /\ result' = [ op    |-> "validateConsecutiveDays",
                   arg   |-> shifts,
                   value |-> validateConsecutiveDays(shifts) ]
    /\ UNCHANGED <<AZG_RULES, TZ, shifts, frames>>

\* a report whose making lowers the daily maximum of the rule object
CallCheckFullCompliance_WritesRules ==
    /\ result' = [ op    |-> "checkFullCompliance",
                   arg   |-> shifts,
                   value |-> checkFullCompliance(shifts) ]
    /\ AZG_RULES' = [AZG_RULES EXCEPT !.MAX_DAILY_HOURS = 10]
    /\ UNCHANGED <<TZ, shifts, frames>>

CallCheckFullCompliance ==
    /\ result' = [ op    |-> "checkFullCompliance",
                   arg   |-> shifts,
                   value |-> checkFullCompliance(shifts) ]
    /\ UNCHANGED <<AZG_RULES, TZ, shifts, frames>>

Next ==
    \/ AddShift
    \/ CallValidateRestTime
    \/ CallValidateWeeklyHours
    \/ CallValidateConsecutiveDays
    \/ CallCheckFullCompliance

Spec == Init /\ [][Next]_vars

(***************************************************************************)
(* A caller that passes one shift to the per-shift operations, none of     *)
(* which reads the clock of the host                                       *)
(***************************************************************************)
InitShift ==
    /\ AZG_RULES = RuleValues
    /\ TZ = "UTC"
    /\ \E date \in SingleDateSet, startTime \in TimeSet, endTime \in TimeSet,
          breakMinutes \in SingleBreakSet, employeeId \in SingleEmployeeSet :
          shifts = << MkShift(1, date, startTime, endTime, breakMinutes, employeeId) >>
    /\ result = NoResult
    /\ frames = NoFrames

NextShift ==
    \/ CallCalculateShiftHours
    \/ CallIsNightWork
    \/ CallValidateShift

SpecShift == InitShift /\ [][NextShift]_vars

\* a caller that has one shift validated and the one-shift list reported
NextOne ==
    \/ CallValidateShift
    \/ CallCheckFullCompliance

SpecOne == InitShift /\ [][NextOne]_vars

(***************************************************************************)
(* A caller that checks the rest between the shifts of a weekend on which  *)
(* Europe/Vienna changes its clocks, to summer time (30 and 31 March 2024) *)
(* or back (26 and 27 October 2024), on a host in either zone.  The shifts *)
(* are the early shift 06:00-19:00, the late shift 08:00-22:00 and the     *)
(* night shift 23:00-07:00 of two employees.                               *)
(***************************************************************************)
RestDateSet     == { <<2024, 3, 30>>, <<2024, 3, 31>>,
                     <<2024, 10, 26>>, <<2024, 10, 27>> }
RestTimeSet     == { << <<6, 0>>, <<19, 0>> >>, << <<8, 0>>, <<22, 0>> >>,
                     << <<23, 0>>, <<7, 0>> >> }
RestBreakSet    == { 30 }
RestEmployeeSet == { "e1", "e2" }

InitRest ==
    /\ AZG_RULES = RuleValues
    /\ TZ \in ZoneSet
    /\ shifts = << >>
    /\ result = NoResult
    /\ frames = NoFrames

AddRestShift ==
    /\ Len(shifts) < MaxRestShifts
    /\ \E date \in RestDateSet, times \in RestTimeSet,
          breakMinutes \in RestBreakSet, employeeId \in RestEmployeeSet :
          /\ Len(shifts) > 0 => date[2] = shifts[1].date[2]
          /\ shifts' = Append(shifts, MkShift(Len(shifts) + 1, date, times[1],
                                              times[2], breakMinutes, employeeId))
    /\ result' = NoResult
    /\ UNCHANGED <<AZG_RULES, TZ, frames>>

CallCalculateRestHours ==
    /\ \E i \in 1..(Len(shifts) - 1) :
          result' = [ op    |-> "calculateRestHours",
                      arg   |-> <<shifts[i], shifts[i + 1]>>,
                      value |-> calculateRestHours(shifts[i], shifts[i + 1]) ]
    /\ UNCHANGED <<AZG_RULES, TZ, shifts, frames>>

NextRest ==
    \/ AddRestShift
    \/ CallCalculateRestHours
    \/ CallValidateRestTime

SpecRest == InitRest /\ [][NextRest]_vars

(***************************************************************************)
(* A caller that checks the roster of up to MaxDays days from 24 February  *)
(* 2024 on: one shift 08:00-19:30 with a break of 30 minutes on each day   *)
(* worked, listed from the first day to the last or from the last to the   *)
(* first, the first shift of the list entered for one employee and the     *)
(* others for the same or for another one, and possibly a second shift on  *)
(* the middle one of the days worked, at the end of the list.              *)
(***************************************************************************)
DayDate(k) == IF k <= 6 THEN <<2024, 2, 23 + k>> ELSE <<2024, 3, k - 6>>
DayTimes   == << <<8, 0>>, <<19, 30>> >>
DayBreak   == RuleValues.MIN_BREAK_MINUTES

\* the days of a set in ascending order
Ascending(days) ==
    [ p \in 1..Cardinality(days) |->
        CHOOSE d \in days : Cardinality({ e \in days : e < d }) = p - 1 ]

DayList(days, descending, twice, firstEmployee, otherEmployee) ==
    LET n     == Cardinality(days)
        order == Ascending(days)
        once  == [ p \in 1..n |->
                     MkShift(p, DayDate(IF descending THEN order[n + 1 - p] ELSE order[p]),
                             DayTimes[1], DayTimes[2], DayBreak,
                             IF p = 1 THEN firstEmployee ELSE otherEmployee) ]
    IN  IF twice /\ n > 0
        THEN Append(once, MkShift(n + 1, DayDate(order[(n + 1) \div 2]),
                                  DayTimes[1], DayTimes[2], DayBreak, otherEmployee))
        ELSE once

InitDays ==
    /\ AZG_RULES = RuleValues
    /\ TZ \in ZoneSet
    /\ \E days \in SUBSET (1..MaxDays), descending \in BOOLEAN, twice \in BOOLEAN,
          firstEmployee \in SingleEmployeeSet, otherEmployee \in SingleEmployeeSet :
          shifts = DayList(days, descending, twice, firstEmployee, otherEmployee)
    /\ result = NoResult
    /\ frames = NoFrames

NextDays ==
    \/ CallValidateConsecutiveDays
    \/ CallValidateWeeklyHours
    \/ CallCheckFullCompliance

SpecDays == InitDays /\ [][NextDays]_vars

(***************************************************************************)
(* A caller that checks the roster of the first days from 24 February 2024 *)
(* on, one shift a day: the same shift on every day but at most one, which *)
(* has another; listed forwards or backwards, the first entry for one      *)
(* employee and the others for the same or for another one, and possibly   *)
(* with the shift of the middle day entered twice.                         *)
(* The shifts (start, end, break) are a day shift without break, a short   *)
(* day shift, a long day shift, a long night shift, a night shift of ten   *)
(* and a half hours, and an entry that ends at the minute it starts.       *)
(***************************************************************************)
RosterShiftSet ==
    { << <<8, 0>>,  <<16, 0>>, 0 >>,
      << <<8, 0>>,  <<15, 0>>, 30 >>,
      << <<6, 0>>,  <<19, 0>>, 30 >>,
      << <<20, 0>>, <<9, 30>>, 30 >>,
      << <<21, 0>>, <<8, 0>>,  30 >>,
      << <<12, 0>>, <<12, 0>>, 0 >> }

RosterList(n, base, special, at, descending, twice, firstEmployee, otherEmployee) ==
    LET day(p)  == IF descending THEN n + 1 - p ELSE p
        kind(d) == IF d = at THEN special ELSE base
        once    == [ p \in 1..n |->
                       MkShift(p, DayDate(day(p)), kind(day(p))[1], kind(day(p))[2],
                               kind(day(p))[3],
                               IF p = 1 THEN firstEmployee ELSE otherEmployee) ]
        middle  == (n + 1) \div 2
    IN  IF twice /\ n > 0
        THEN Append(once, MkShift(n + 1, DayDate(middle), kind(middle)[1],
                                  kind(middle)[2], kind(middle)[3], otherEmployee))
        ELSE once

InitRoster ==
    /\ AZG_RULES = RuleValues
    /\ TZ \in ZoneSet
    /\ \E n \in 0..MaxRosterDays, base \in RosterShiftSet, special \in RosterShiftSet,
          descending \in BOOLEAN, twice \in BOOLEAN,
          otherEmployee \in SingleEmployeeSet :
          \E at \in 0..n :
              shifts = RosterList(n, base, special, at, descending, twice,
                                  "e1", otherEmployee)
    /\ result = NoResult
    /\ frames = NoFrames

NextRoster ==
    \/ CallValidateRestTime
    \/ CallValidateConsecutiveDays
    \/ CallCheckFullCompliance

SpecRoster == InitRoster /\ [][NextRoster]_vars

(***************************************************************************)
(* Callers that pass the same shifts in every order.  The shifts are those *)
(* of the first days from 24 February 2024 on, one a day: 08:00-22:00 of   *)
(* one employee on the odd days and 06:00-19:00 of another one on the even *)
(* days; or those of one day less and a shift 12:00-20:00 on the middle    *)
(* day.  Every shift keeps its id in every order.  The lists with two      *)
(* shifts on one day, and the hosts outside UTC, are those of up to        *)
(* VariedShifts shifts.                                                    *)
(***************************************************************************)
PermShift(k, n, extra) ==
    IF extra /\ k = n
    THEN MkShift(k, DayDate(n \div 2), <<12, 0>>, <<20, 0>>, 30, "e2")
    ELSE IF k % 2 = 1
         THEN MkShift(k, DayDate(k), <<8, 0>>, <<22, 0>>, 30, "e1")
         ELSE MkShift(k, DayDate(k), <<6, 0>>, <<19, 0>>, 30, "e2")

InitPerm ==
    /\ AZG_RULES = RuleValues
    /\ TZ \in ZoneSet
    /\ \E n \in 0..MaxPermShifts, extra \in BOOLEAN :
          /\ extra => n \in 2..VariedShifts
          /\ TZ # "UTC" => n <= VariedShifts
          /\ \E order \in Permutations(1..n) :
                shifts = [ p \in 1..n |-> PermShift(order[p], n, extra) ]
    /\ result = NoResult
    /\ frames = NoFrames

NextPerm ==
    \/ CallValidateRestTime
    \/ CallValidateConsecutiveDays

SpecPerm == InitPerm /\ [][NextPerm]_vars

(***************************************************************************)
(* A caller that checks the week from Tuesday 26 March 2024 on, the week   *)
(* in which Europe/Vienna changes to summer time, on a host in either      *)
(* zone.  The shifts start at 08:00 and end at 15:00 without a break (7 h) *)
(* or at 17:50 (9 h 20 min) or 20:20 (11 h 50 min) with a break of 30      *)
(* minutes; they fall on the day before the week, on its first and its     *)
(* last day and on the day after it.                                       *)
(***************************************************************************)
WeekStart       == <<2024, 3, 26>>
WeekDateSet     == { <<2024, 3, 25>>, <<2024, 3, 26>>, <<2024, 4, 1>>, <<2024, 4, 2>> }
WeekTimeSet     == { << <<8, 0>>, <<15, 0>>, 0 >>, << <<8, 0>>, <<17, 50>>, 30 >>,
                     << <<8, 0>>, <<20, 20>>, 30 >> }
WeekEmployeeSet == { "e1", "e2" }

InitWeek ==
    /\ AZG_RULES = RuleValues
    /\ TZ \in ZoneSet
    /\ shifts = << >>
    /\ result = NoResult
    /\ frames = NoFrames

AddWeekShift ==
    /\ Len(shifts) < MaxWeekShifts
    /\ \E date \in WeekDateSet, times \in WeekTimeSet, employeeId \in WeekEmployeeSet :
          shifts' = Append(shifts, MkShift(Len(shifts) + 1, date, times[1],
                                           times[2], times[3], employeeId))
    /\ result' = NoResult
    /\ UNCHANGED <<AZG_RULES, TZ, frames>>

CallValidateWeek ==
    /\ result' = [ op    |-> "validateWeeklyHours",
                   arg   |-> <<shifts, WeekStart>>,
                   value |-> validateWeeklyHours(shifts, WeekStart) ]
    /\ UNCHANGED <<AZG_RULES, TZ, shifts, frames>>

NextWeek ==
    \/ AddWeekShift
    \/ CallValidateWeek

SpecWeek == InitWeek /\ [][NextWeek]_vars

(***************************************************************************)
(* Callers that run operations of the engine side by side on one roster:   *)
(* the shifts 08:00-19:30 of the first days from 24 February 2024 on, from *)
(* the first day to the last or from the last to the first, possibly with  *)
(* a second shift on the middle day.  A call of validateRestTime or of     *)
(* validateConsecutiveDays proceeds statement by statement, one iteration  *)
(* of its loop at a time, and the steps of the callers interleave in any   *)
(* order; its violations array, sorted copy, loop index and counter are    *)
(* the locals of the call (const / let in the function body).  The other   *)
(* operations have no loop over shared data and run in one step.           *)
(***************************************************************************)
CanCall(c) == frames[c].pc \in { "idle", "done" }

\* the frame of a call that has returned
Returned(op, arg, value) ==
    [ IdleFrame EXCEPT !.pc = "done", !.op = op, !.arg = arg, !.value = value ]

\* violations.push(...) in the call of caller c: the array is the one
\* created by this call (const violations = [], azg-rules.ts:181, 261)
PushViolations_Shared(fs, c, found) ==
    [ d \in DOMAIN fs |->
        IF fs[d].pc \in { "restLoop", "daysLoop" }
        THEN [ fs[d] EXCEPT !.violations = @ \o found ]
        ELSE fs[d] ]

PushViolations(fs, c, found) ==
    [ fs EXCEPT ![c].violations = @ \o found ]

InitCallers ==
    /\ AZG_RULES = RuleValues
    /\ TZ \in ZoneSet
    /\ \E n \in 0..MaxCallDays, descending \in BOOLEAN, twice \in BOOLEAN :
          shifts = DayList(1..n, descending, twice, "e1", "e2")
    /\ result = NoResult
    /\ frames = NoFrames

\* the shifts a caller passes singly: the first and the last of the roster
FirstAndLast(list) == { 1, Len(list) } \cap (1..Len(list))

RunCalculateShiftHours(c) ==
    /\ CanCall(c)
    /\ \E i \in FirstAndLast(shifts) :
          frames' = [ frames EXCEPT ![c] =
                        Returned("calculateShiftHours", shifts[i],
                                 calculateShiftHours(shifts[i])) ]
    /\ UNCHANGED <<AZG_RULES, TZ, shifts, result>>

RunIsNightWork(c) ==
    /\ CanCall(c)
    /\ \E i \in FirstAndLast(shifts) :
          frames' = [ frames EXCEPT ![c] =
                        Returned("isNightWork", shifts[i], isNightWork(shifts[i])) ]
    /\ UNCHANGED <<AZG_RULES, TZ, shifts, result>>

RunValidateShift(c) ==
    /\ CanCall(c)
    /\ \E i \in FirstAndLast(shifts) :
          frames' = [ frames EXCEPT ![c] =
                        Returned("validateShift", shifts[i], validateShift(shifts[i])) ]
    /\ UNCHANGED <<AZG_RULES, TZ, shifts, result>>

RunValidateWeeklyHours(c) ==
    /\ CanCall(c)
    /\ \E weekStart \in DateSet :
          frames' = [ frames EXCEPT ![c] =
                        Returned("validateWeeklyHours", <<shifts, weekStart>>,
                                 validateWeeklyHours(shifts, weekStart)) ]
    /\ UNCHANGED <<AZG_RULES, TZ, shifts, result>>

RunCheckFullCompliance(c) ==
    /\ CanCall(c)
    /\ frames' = [ frames EXCEPT ![c] =
                     Returned("checkFullCompliance", shifts, checkFullCompliance(shifts)) ]
    /\ UNCHANGED <<AZG_RULES, TZ, shifts, result>>

\* azg-rules.ts:181-188
BeginValidateRestTime(c) ==
    /\ CanCall(c)
    /\ LET copy == SortedCopy(shifts)
       IN  /\ frames' = [ frames EXCEPT ![c] =
                            [ IdleFrame EXCEPT !.pc = "restLoop",
                                               !.op = "validateRestTime",
                                               !.arg = shifts,
                                               !.sorted = copy.sorted,
                                               !.i = 1 ] ]
           /\ shifts' = copy.argument
    /\ UNCHANGED <<AZG_RULES, TZ, result>>

\* one iteration of the loop, azg-rules.ts:190-206
StepValidateRestTime(c) ==
    /\ frames[c].pc = "restLoop"
    /\ frames[c].i < Len(frames[c].sorted)
    /\ frames' = [ PushViolations(frames, c,
                       CheckRestTime(frames[c].sorted[frames[c].i],
                                     frames[c].sorted[frames[c].i + 1]))
                   EXCEPT ![c].i = @ + 1 ]
    /\ UNCHANGED <<AZG_RULES, TZ, shifts, result>>

\* return violations, azg-rules.ts:208
EndValidateRestTime(c) ==
    /\ frames[c].pc = "restLoop"
    /\ frames[c].i >= Len(frames[c].sorted)
    /\ frames' = [ frames EXCEPT ![c] =
                     Returned(frames[c].op, frames[c].arg, frames[c].violations) ]
    /\ UNCHANGED <<AZG_RULES, TZ, shifts, result>>

\* azg-rules.ts:261-266
BeginValidateConsecutiveDays(c) ==
    /\ CanCall(c)
    /\ frames' = [ frames EXCEPT ![c] =
                     [ IdleFrame EXCEPT !.pc = "daysLoop",
                                        !.op = "validateConsecutiveDays",
                                        !.arg = shifts,
                                        !.workDates = WorkDates(shifts),
                                        !.consecutive = 1,
                                        !.i = 2 ] ]
    /\ UNCHANGED <<AZG_RULES, TZ, shifts, result>>

\* one iteration of the loop, azg-rules.ts:267-290
StepValidateConsecutiveDays(c) ==
    /\ frames[c].pc = "daysLoop"
    /\ frames[c].i <= Len(frames[c].workDates)
    /\ LET step == ConsecutiveStep(frames[c].workDates, frames[c].i,
                                   frames[c].consecutive, frames[c].arg)
       IN  frames' = [ PushViolations(frames, c, step.found)
                       EXCEPT ![c].i = @ + 1,
                              ![c].consecutive = step.consecutive ]
    /\ UNCHANGED <<AZG_RULES, TZ, shifts, result>>

\* return violations, azg-rules.ts:292
EndValidateConsecutiveDays(c) ==
    /\ frames[c].pc = "daysLoop"
    /\ frames[c].i > Len(frames[c].workDates)
    /\ frames' = [ frames EXCEPT ![c] =
                     Returned(frames[c].op, frames[c].arg, frames[c].violations) ]
    /\ UNCHANGED <<AZG_RULES, TZ, shifts, result>>

NextCallers ==
    \E c \in Callers :
        \/ RunCalculateShiftHours(c)
        \/ RunIsNightWork(c)
        \/ RunValidateShift(c)
        \/ RunValidateWeeklyHours(c)
        \/ RunCheckFullCompliance(c)
        \/ BeginValidateRestTime(c)
        \/ StepValidateRestTime(c)
        \/ EndValidateRestTime(c)
        \/ BeginValidateConsecutiveDays(c)
        \/ StepValidateConsecutiveDays(c)
        \/ EndValidateConsecutiveDays(c)

SpecCallers == InitCallers /\ [][NextCallers]_vars

(***************************************************************************)
(* Properties                                                              *)
(***************************************************************************)
\* the positions of a list of findings that carry the given severity / type
WithSeverity(findings, severity) ==
    { k \in 1..Len(findings) : findings[k].severity = severity }

WithType(findings, type) ==
    { k \in 1..Len(findings) : findings[k].type = type }

\* minutes from start to end on the clock, the end taken on the next day
\* when it is earlier than the start, less the break
ClockMinutes(time) == 60 * time[1] + time[2]

WorkedMinutes(shift) ==
    ((ClockMinutes(shift.endTime) - ClockMinutes(shift.startTime) + 1440) % 1440)
        - shift.breakMinutes

\* the report of the last call, when it was a call of checkFullCompliance
IsReport == result.op = "checkFullCompliance"

\* C1: the score of every report is max(0, 100 - 20*V - 5*W) for the V
\* findings of severity 'violation' and the W findings of severity 'warning'
\* of its violations list, hence an integer in 0..100
C1_Score ==
    IsReport =>
        LET V   == Cardinality(WithSeverity(result.value.violations, "violation"))
            W   == Cardinality(WithSeverity(result.value.violations, "warning"))
            raw == 100 - 20 * V - 5 * W
        IN  /\ result.value.score = (IF raw < 0 THEN 0 ELSE raw)
            /\ result.value.score \in 0..100
            /\ (V = 2 /\ W = 1) => result.value.score = 55
            /\ V >= 10 => result.value.score = 0

\* a report with ten or more findings of severity 'violation' and score 0
C1_Witness ==
    /\ IsReport
    /\ Cardinality(WithSeverity(result.value.violations, "violation")) >= 10
    /\ result.value.score = 0

\* C2: a report is compliant if and only if its violations list holds no
\* finding of severity 'violation'; warnings never make it non-compliant
C2_IsCompliant ==
    IsReport =>
        (result.value.isCompliant = TRUE
            <=> WithSeverity(result.value.violations, "violation") = {})

\* a compliant report that carries warnings and nothing else
C2_Witness ==
    /\ IsReport
    /\ WithSeverity(result.value.violations, "warning") # {}
    /\ WithSeverity(result.value.violations, "violation") = {}
    /\ result.value.isCompliant = TRUE

\* the per-shift findings of list[1..n], shift after shift in input order
RECURSIVE PerShiftFindings(_, _)
PerShiftFindings(list, n) ==
    IF n = 0 THEN << >>
    ELSE PerShiftFindings(list, n - 1) \o validateShift(list[n])

\* C3: the violations list of a report is validateShift of every shift in
\* input order, then validateRestTime, then validateConsecutiveDays of the
\* list, with nothing merged, dropped or reordered
C3_Concatenation ==
    IsReport =>
        result.value.violations =
            PerShiftFindings(result.arg, Len(result.arg))
                \o validateRestTime(result.arg)
                \o validateConsecutiveDays(result.arg)

\* a report on a list that is not in sorted order, whose first two shifts
\* have findings, and that keeps two equal findings
C3_Witness ==
    /\ IsReport
    /\ Len(result.arg) >= 2
    /\ \/ localeCompare(result.arg[1].date, result.arg[2].date) > 0
       \/ /\ result.arg[1].date = result.arg[2].date
          /\ localeCompare(result.arg[1].startTime, result.arg[2].startTime) > 0
    /\ WorkedMinutes(result.arg[1]) > 720
    /\ WorkedMinutes(result.arg[2]) > 360
    /\ \E i, j \in 1..Len(result.value.violations) :
          i < j /\ result.value.violations[i] = result.value.violations[j]

\* C4: on the empty list the three sequence validators return the empty
\* list and checkFullCompliance returns the compliant report with score 100
C4_EmptyList ==
    /\ (result.op = "validateRestTime" /\ result.arg = << >>)
          => result.value = << >>
    /\ (result.op = "validateConsecutiveDays" /\ result.arg = << >>)
          => result.value = << >>
    /\ (result.op = "validateWeeklyHours" /\ result.arg[1] = << >>)
          => result.value = << >>
    /\ (IsReport /\ result.arg = << >>)
          => result.value =
                [isCompliant |-> TRUE, violations |-> << >>, score |-> 100]

\* validateWeeklyHours has returned from a call on the empty list
C4_Witness ==
    /\ result.op = "validateWeeklyHours"
    /\ result.arg[1] = << >>
    /\ result.value = << >>

\* the findings of the last call, when it was a call of validateShift
IsShiftCheck == result.op = "validateShift"

\* C5: validateShift emits MAX_DAILY_HOURS (severity 'violation', with the
\* shift's date and employeeId) if and only if the worked time is strictly
\* greater than 12 hours; exactly 720 worked minutes do not trigger it
C5_MaxDailyHours ==
    IsShiftCheck =>
        /\ WithType(result.value, "MAX_DAILY_HOURS") # {}
              <=> WorkedMinutes(result.arg) > 720
        /\ \A k \in WithType(result.value, "MAX_DAILY_HOURS") :
              /\ result.value[k].severity = "violation"
              /\ result.value[k].details.date = result.arg.date
              /\ result.value[k].details.employeeId = result.arg.employeeId

\* a shift of 721 worked minutes that got the finding
C5_Witness ==
    /\ IsShiftCheck
    /\ WorkedMinutes(result.arg) = 721
    /\ WithType(result.value, "MAX_DAILY_HOURS") # {}

\* the hour fields of a shift say night work
NightByHours(shift) ==
    \/ shift.startTime[1] >= 22
    \/ shift.endTime[1] <= 5
    \/ shift.endTime[1] < shift.startTime[1]

\* C6: validateShift emits NIGHT_WORK_LIMIT (severity 'violation') if and
\* only if the shift is night work and its worked time is strictly greater
\* than 10 hours
C6_NightWorkLimit ==
    IsShiftCheck =>
        /\ WithType(result.value, "NIGHT_WORK_LIMIT") # {}
              <=> (NightByHours(result.arg) /\ WorkedMinutes(result.arg) > 600)
        /\ \A k \in WithType(result.value, "NIGHT_WORK_LIMIT") :
              result.value[k].severity = "violation"

\* the shift 21:00-08:00 without break (11 h, night) got the finding
C6_Witness ==
    /\ IsShiftCheck
    /\ result.arg.startTime = <<21, 0>>
    /\ result.arg.endTime = <<8, 0>>
    /\ result.arg.breakMinutes = 0
    /\ WithType(result.value, "NIGHT_WORK_LIMIT") # {}

\* C7: validateShift emits MISSING_BREAK, always of severity 'warning', if
\* and only if the worked time is strictly greater than 6 hours and
\* breakMinutes is strictly less than 30
C7_MissingBreak ==
    IsShiftCheck =>
        /\ WithType(result.value, "MISSING_BREAK") # {}
              <=> (WorkedMinutes(result.arg) > 360 /\ result.arg.breakMinutes < 30)
        /\ \A k \in WithType(result.value, "MISSING_BREAK") :
              result.value[k].severity = "warning"

\* a shift of more than 6 hours with a break of 29 minutes got the warning
C7_Witness ==
    /\ IsShiftCheck
    /\ WorkedMinutes(result.arg) > 360
    /\ result.arg.breakMinutes = 29
    /\ \E k \in WithType(result.value, "MISSING_BREAK") :
          result.value[k].severity = "warning"

\* the place of a per-shift finding type in the order of the checks
TypeRank(type) ==
    CASE type = "MAX_DAILY_HOURS"  -> 1
      [] type = "NIGHT_WORK_LIMIT" -> 2
      [] type = "MISSING_BREAK"    -> 3
      [] OTHER                     -> 0

\* C8: validateShift returns at most three findings, at most one of each of
\* MAX_DAILY_HOURS, NIGHT_WORK_LIMIT and MISSING_BREAK and no other type, in
\* that relative order
C8_FindingOrder ==
    IsShiftCheck =>
        /\ Len(result.value) <= 3
        /\ \A k \in 1..Len(result.value) : TypeRank(result.value[k].type) # 0
        /\ \A i, j \in 1..Len(result.value) :
              i < j => TypeRank(result.value[i].type) < TypeRank(result.value[j].type)

\* a shift that got all three findings
C8_Witness ==
    /\ IsShiftCheck
    /\ Len(result.value) = 3

\* C9: calculateShiftHours returns (E - S - breakMinutes) / 60 for the start
\* S and the end E in minutes of the day, with 1440 added to E exactly when
\* E < S
C9_ShiftHours ==
    result.op = "calculateShiftHours" =>
        LET S == 60 * result.arg.startTime[1] + result.arg.startTime[2]
            E == 60 * result.arg.endTime[1] + result.arg.endTime[2]
            b == result.arg.breakMinutes
        IN  /\ result.value.den > 0
            /\ E < S  => result.value.num * 60 = (E + 1440 - S - b) * result.value.den
            /\ E >= S => result.value.num * 60 = (E - S - b) * result.value.den
            /\ (E > S /\ b = 0) => result.value.num * 60 = (E - S) * result.value.den

\* the hours of an overnight shift with a break
C9_Witness ==
    /\ result.op = "calculateShiftHours"
    /\ ClockMinutes(result.arg.endTime) < ClockMinutes(result.arg.startTime)
    /\ result.arg.breakMinutes > 0
    /\ result.value.num > 0

\* C10: isNightWork is true if and only if startHour >= 22 or endHour <= 5
\* or endHour < startHour; the minutes, the break, the date and the duration
\* have no influence
C10_NightWork ==
    result.op = "isNightWork" =>
        (result.value = TRUE <=> NightByHours(result.arg))

\* a day shift that ends at 05:30 or 05:59, past the end of the night
\* window, is night work by its end hour
C10_Witness ==
    /\ result.op = "isNightWork"
    /\ result.arg.startTime[1] < 5
    /\ result.arg.endTime[1] = 5
    /\ result.arg.endTime[2] >= 30
    /\ result.value = TRUE

\* start and end of the working interval in minutes from midnight of the
\* shift's date, the end on the following day when it is before the start
IntervalStart(shift) == ClockMinutes(shift.startTime)

IntervalEnd(shift) ==
    IF ClockMinutes(shift.endTime) < ClockMinutes(shift.startTime)
    THEN ClockMinutes(shift.endTime) + 1440
    ELSE ClockMinutes(shift.endTime)

\* the working interval shares a stretch of time with the night window
\* 22:00-05:00 of the evening before, of the shift's date or of the next day
OverlapsNightWindow(shift) ==
    /\ IntervalStart(shift) < IntervalEnd(shift)
    /\ \/ IntervalStart(shift) < 300
       \/ IntervalStart(shift) < 1740 /\ IntervalEnd(shift) > 1320
       \/ IntervalEnd(shift) > 2760

\* the working interval at least touches the night window (22:00 and 05:00
\* counted in)
TouchesNightWindow(shift) ==
    \/ IntervalStart(shift) <= 300
    \/ IntervalStart(shift) <= 1740 /\ IntervalEnd(shift) >= 1320
    \/ IntervalEnd(shift) >= 2760

\* C11: isNightWork is true exactly when the working interval intersects
\* the night window 22:00-05:00: every shift that includes night time is
\* night work, and every shift (of positive length) that is night work at
\* least touches the window
C11_NightWindow ==
    (result.op = "isNightWork" /\ IntervalStart(result.arg) < IntervalEnd(result.arg)) =>
        /\ OverlapsNightWindow(result.arg) => result.value = TRUE
        /\ result.value = TRUE => TouchesNightWindow(result.arg)

\* the day of the year 2024 of a date of 2024
MonthStart == <<0, 31, 60, 91, 121, 152, 182, 213, 244, 274, 305, 335>>
DayOfYear(date) == MonthStart[date[2]] + date[3]

\* the minutes the host's clock is ahead of UTC at a local date and time of
\* 2024: Europe/Vienna is at UTC+1 until its clocks go from 02:00 to 03:00
\* on 31 March, at UTC+2 from then until they go from 03:00 back to 02:00 on
\* 27 October (the hour from 02:00 that the clock shows twice is read as
\* its first passing), and at UTC+1 from then on
UtcOffsetAt(date, time) ==
    IF TZ = "Europe/Vienna"
    THEN (IF /\ \/ DayOfYear(date) > DayOfYear(<<2024, 3, 31>>)
                \/ /\ DayOfYear(date) = DayOfYear(<<2024, 3, 31>>)
                   /\ ClockMinutes(time) >= 180
             /\ \/ DayOfYear(date) < DayOfYear(<<2024, 10, 27>>)
                \/ /\ DayOfYear(date) = DayOfYear(<<2024, 10, 27>>)
                   /\ ClockMinutes(time) < 180
          THEN 120 ELSE 60)
    ELSE 0

\* minutes from a's end to b's start as read off calendar and clock:
\* 24h * (days from a.date to b.date) + b.startTime - a.endTime
WallClockRest(a, b) ==
    1440 * (DayOfYear(b.date) - DayOfYear(a.date))
        + ClockMinutes(b.startTime) - ClockMinutes(a.endTime)

\* minutes that pass from a's end to b's start: the clock's reading less
\* what the clock was put forward, or plus what it was put back, in between
ElapsedRest(a, b) ==
    WallClockRest(a, b)
        - (UtcOffsetAt(b.date, b.startTime) - UtcOffsetAt(a.date, a.endTime))

\* shift s sorts before shift t: earlier (date, startTime), or the same
\* (date, startTime) and earlier in the input (every shift has its own id,
\* its place in the input)
SortsBefore(s, t) ==
    \/ DayOfYear(s.date) < DayOfYear(t.date)
    \/ /\ s.date = t.date
       /\ ClockMinutes(s.startTime) < ClockMinutes(t.startTime)
    \/ /\ s.date = t.date
       /\ s.startTime = t.startTime
       /\ s.id < t.id

\* the list in ascending order of (date, startTime), ties in input order
InOrder(list) ==
    [ k \in 1..Len(list) |->
        list[CHOOSE i \in 1..Len(list) :
                Cardinality({ j \in 1..Len(list) : SortsBefore(list[j], list[i]) }) = k - 1] ]

\* the findings looked for: one for every adjacent pair of the ordered list,
\* from position i on, that rests less than 11 hours
RECURSIVE ShortRests(_, _)
ShortRests(ordered, i) ==
    IF i >= Len(ordered) THEN << >>
    ELSE (IF ElapsedRest(ordered[i], ordered[i + 1]) < 11 * 60
          THEN << [ type       |-> "MIN_REST_TIME",
                    severity   |-> "violation",
                    date       |-> ordered[i + 1].date,
                    employeeId |-> ordered[i].employeeId ] >>
          ELSE << >>)
         \o ShortRests(ordered, i + 1)

\* type, severity, date and employee of every finding of a list
Headlines(findings) ==
    [ k \in 1..Len(findings) |->
        [ type       |-> findings[k].type,
          severity   |-> findings[k].severity,
          date       |-> findings[k].details.date,
          employeeId |-> findings[k].details.employeeId ] ]

\* C12: validateRestTime orders the shifts by (date, startTime) and returns
\* one MIN_REST_TIME violation, dated b.date and naming a's employee, for
\* exactly the pairs (a, b) adjacent in that order that rest less than 11
\* hours, in that order: a rest of exactly 11 hours gives none, and n shifts
\* give at most n - 1 findings
C12_RestTime ==
    result.op = "validateRestTime" =>
        /\ Headlines(result.value) = ShortRests(InOrder(result.arg), 1)
        /\ Len(result.arg) > 0 => Len(result.value) <= Len(result.arg) - 1

\* day 1 ends at 22:00 and day 2 starts at 06:00: one finding, dated day 2
C12_Witness ==
    /\ result.op = "validateRestTime"
    /\ Len(result.arg) = 2
    /\ \E i, j \in 1..2 :
          /\ result.arg[i].date = <<2024, 3, 30>>
          /\ result.arg[i].endTime = <<22, 0>>
          /\ result.arg[j].date = <<2024, 3, 31>>
          /\ result.arg[j].startTime = <<6, 0>>
    /\ Len(result.value) = 1
    /\ result.value[1].type = "MIN_REST_TIME"
    /\ result.value[1].details.date = <<2024, 3, 31>>

\* a is the night shift 23:00-07:00 of a day and b starts at 08:00 on the
\* day after
NightThenMorning(a, b) ==
    /\ a.startTime = <<23, 0>>
    /\ a.endTime = <<7, 0>>
    /\ b.startTime = <<8, 0>>
    /\ DayOfYear(b.date) = DayOfYear(a.date) + 1

\* C13 as stated: the rest of a and b is 24h * (days from a.date to b.date)
\* + b.startTime - a.endTime, a.endTime taken on a.date also when a crosses
\* midnight, both as calculateRestHours returns it and as the findings of
\* validateRestTime report it
C13_WallClockRest ==
    /\ result.op = "calculateRestHours" =>
          result.value.num * 60
              = WallClockRest(result.arg[1], result.arg[2]) * result.value.den
    /\ result.op = "validateRestTime" =>
          LET ordered == InOrder(result.arg)
          IN  \A k \in 1..Len(result.value) :
                \E i \in 1..(Len(ordered) - 1) :
                    /\ result.value[k].details.date = ordered[i + 1].date
                    /\ result.value[k].details.actual.num * 60
                          = WallClockRest(ordered[i], ordered[i + 1])
                              * result.value[k].details.actual.den

\* C13: the rest of a and b is the time that passes from the local instant
\* (a.date, a.endTime) to the local instant (b.date, b.startTime), a.endTime
\* taken on a.date also when a crosses midnight: 24h * (days from a.date to
\* b.date) + b.startTime - a.endTime, less what the host's clock is put
\* forward and plus what it is put back between the two instants.  The
\* night shift 23:00-07:00 of day D and a shift from 08:00 on day D + 1 rest
\* 25 hours, 24 when the host's clock goes forward in the night after D and
\* 26 when it goes back, and get no finding
C13_ElapsedRest ==
    /\ result.op = "calculateRestHours" =>
          /\ result.value.den > 0
          /\ result.value.num * 60
                = ElapsedRest(result.arg[1], result.arg[2]) * result.value.den
          /\ NightThenMorning(result.arg[1], result.arg[2]) =>
                result.value.num
                    = (IF TZ = "Europe/Vienna" /\ result.arg[1].date = <<2024, 3, 30>>
                       THEN 24
                       ELSE IF TZ = "Europe/Vienna"
                               /\ result.arg[1].date = <<2024, 10, 26>>
                            THEN 26
                            ELSE 25) * result.value.den
    /\ (result.op = "validateRestTime" /\ Len(result.arg) = 2
          /\ NightThenMorning(result.arg[1], result.arg[2])) =>
          result.value = << >>
    /\ result.op = "validateRestTime" =>
          LET ordered == InOrder(result.arg)
          IN  \A k \in 1..Len(result.value) :
                \E i \in 1..(Len(ordered) - 1) :
                    /\ result.value[k].details.date = ordered[i + 1].date
                    /\ result.value[k].details.employeeId = ordered[i].employeeId
                    /\ result.value[k].details.actual.num * 60
                          = ElapsedRest(ordered[i], ordered[i + 1])
                              * result.value[k].details.actual.den

\* the night shift 23:00-07:00 of 26 October and a shift from 08:00 on
\* 27 October: 25 hours by the clock, while 26 pass on a host whose clock
\* goes back that night
C13_Witness ==
    /\ result.op = "calculateRestHours"
    /\ TZ = "Europe/Vienna"
    /\ result.arg[1].date = <<2024, 10, 26>>
    /\ result.arg[1].startTime = <<23, 0>>
    /\ result.arg[1].endTime = <<7, 0>>
    /\ result.arg[2].date = <<2024, 10, 27>>
    /\ result.arg[2].startTime = <<8, 0>>
    /\ WallClockRest(result.arg[1], result.arg[2]) = 25 * 60
    /\ result.value.num = 26 * result.value.den

\* C20: the order validateRestTime works on is stable: shifts of the same
\* date and startTime keep their input order, so of two such shifts the
\* first in the input is the a and the later the b of their pair
C20_StableSort ==
    result.op = "validateRestTime" =>
        /\ LET sorted == SortShifts(result.arg)
           IN  \A i, j \in 1..Len(sorted) :
                  ( /\ sorted[i].date = sorted[j].date
                    /\ sorted[i].startTime = sorted[j].startTime
                    /\ sorted[i].id < sorted[j].id ) => i < j
        /\ ( /\ Len(result.arg) = 2
             /\ result.arg[1].date = result.arg[2].date
             /\ result.arg[1].startTime = result.arg[2].startTime )
           => Headlines(result.value) = ShortRests(result.arg, 1)

\* two employees on the same shift, "e2" first in the input: the finding
\* of the pair names "e2"
C20_Witness ==
    /\ result.op = "validateRestTime"
    /\ Len(result.arg) = 2
    /\ result.arg[1].date = result.arg[2].date
    /\ result.arg[1].startTime = result.arg[2].startTime
    /\ result.arg[1].employeeId = "e2"
    /\ result.arg[2].employeeId = "e1"
    /\ Len(result.value) = 1
    /\ result.value[1].details.employeeId = "e2"

\* the days of the year on which a list has shifts
DaysWorked(list) == { DayOfYear(list[k].date) : k \in 1..Len(list) }

\* the place of day n, a day worked, in its run of days worked one after
\* the other: 1 for a day after a day off, 2 for the day after that, ...
RunDay(days, n) ==
    CHOOSE k \in 1..Cardinality(days) :
        /\ \A j \in 0..(k - 1) : (n - j) \in days
        /\ (n - k) \notin days

\* C14: validateConsecutiveDays returns, in ascending order of date, one
\* CONSECUTIVE_DAYS violation for every date worked that is the k-th day,
\* k >= 7, of a run of dates worked each one day after the other, whatever
\* the number of shifts on a date, and nothing else; its details.date is
\* that date and its details.actual is k; a list whose dates are one run
\* of n days gets max(0, n - 6) findings
C14_ConsecutiveDays ==
    result.op = "validateConsecutiveDays" =>
        LET days == DaysWorked(result.arg)
            late == { n \in days : RunDay(days, n) >= 7 }
            v    == result.value
        IN  /\ Len(v) = Cardinality(late)
            /\ \A k \in 1..Len(v) :
                  /\ v[k].type = "CONSECUTIVE_DAYS"
                  /\ v[k].severity = "violation"
                  /\ DayOfYear(v[k].details.date) \in late
                  /\ v[k].details.actual.num
                        = RunDay(days, DayOfYear(v[k].details.date)) * v[k].details.actual.den
                  /\ \A l \in (k + 1)..Len(v) :
                        DayOfYear(v[k].details.date) < DayOfYear(v[l].details.date)
            /\ (days # {} /\ \A n \in days : RunDay(days, n) - 1
                                  = Cardinality({ e \in days : e < n }))
                  => Len(v) = Max(0, Cardinality(days) - 6)

\* eight dates in a row, one of them with two shifts: two findings, for
\* the 7th and the 8th day
C14_Witness ==
    /\ result.op = "validateConsecutiveDays"
    /\ Cardinality(DaysWorked(result.arg)) = 8
    /\ Len(result.arg) = 9
    /\ \A n \in DaysWorked(result.arg) :
          RunDay(DaysWorked(result.arg), n) <= 8
    /\ \E n \in DaysWorked(result.arg) : RunDay(DaysWorked(result.arg), n) = 8
    /\ Len(result.value) = 2
    /\ result.value[1].details.actual = Rat(7, 1)
    /\ result.value[2].details.actual = Rat(8, 1)

\* C15: every CONSECUTIVE_DAYS finding of validateConsecutiveDays names
\* the employee of the first shift of the list as passed, whoever works on
\* the date of the finding
C15_FirstEmployee ==
    result.op = "validateConsecutiveDays" =>
        \A k \in 1..Len(result.value) :
            result.value[k].details.employeeId = result.arg[1].employeeId

\* a list from the last day to the first: its first shift is e1's, the
\* shift on the date of the finding is e2's, the finding names e1
C15_Witness ==
    /\ result.op = "validateConsecutiveDays"
    /\ Len(result.value) > 0
    /\ result.arg[1].employeeId = "e1"
    /\ \A k \in 2..Len(result.arg) : result.arg[k].employeeId = "e2"
    /\ result.arg[1].date # result.value[1].details.date
    /\ DayOfYear(result.arg[1].date) > DayOfYear(result.arg[2].date)
    /\ result.value[1].details.employeeId = "e1"

\* the minutes worked in all shifts of a list
RECURSIVE SumWorked(_)
SumWorked(list) ==
    IF Len(list) = 0 THEN 0
    ELSE WorkedMinutes(Head(list)) + SumWorked(Tail(list))

WeeklyTypes == { "MAX_WEEKLY_HOURS", "AVG_WEEKLY_HOURS" }

\* C16: no report of checkFullCompliance has a finding of type
\* MAX_WEEKLY_HOURS or AVG_WEEKLY_HOURS, whatever hours the shifts add up
\* to, and no operation returns a finding of type AVG_WEEKLY_HOURS
C16_NoWeeklyFinding ==
    /\ IsReport =>
          \A k \in 1..Len(result.value.violations) :
              result.value.violations[k].type \notin WeeklyTypes
    /\ result.op \in { "validateConsecutiveDays", "validateWeeklyHours" } =>
          \A k \in 1..Len(result.value) :
              result.value[k].type # "AVG_WEEKLY_HOURS"

\* six days in a row of 11 hours each, 66 hours within one week: the
\* report is compliant with score 100
C16_Witness ==
    /\ IsReport
    /\ \A n, m \in DaysWorked(result.arg) : n - m <= 6
    /\ SumWorked(result.arg) > 60 * 60
    /\ result.value.isCompliant = TRUE
    /\ result.value.score = 100
    /\ result.value.violations = << >>

\* the shifts of a list that validateWeeklyHours takes into the week
InWeek(list, weekStart) == WeekShifts(list, weekStart)

\* the shifts of a list dated weekStart, weekStart + 6 days or in between
\* on the calendar
InCalendarWeek(list, weekStart) ==
    SelectSeq(list, LAMBDA s : /\ DayOfYear(weekStart) <= DayOfYear(s.date)
                               /\ DayOfYear(s.date) <= DayOfYear(weekStart) + 6)

\* C17: validateWeeklyHours returns at most one finding, of type
\* MAX_WEEKLY_HOURS: a violation with limit 60 when the hours worked in the
\* shifts of the week add up to more than 60, else a warning with limit 40
\* when they add up to more than 40, else nothing, so nothing at exactly 40
\* and a warning at exactly 60; the finding is dated weekStart and names
\* the employee of the first shift of the week in input order
C17_WeeklyBands ==
    result.op = "validateWeeklyHours" =>
        LET weekStart == result.arg[2]
            inWeek    == InWeek(result.arg[1], weekStart)
            minutes   == SumWorked(inWeek)
            v         == result.value
        IN  /\ Len(v) <= 1
            /\ Len(v) = 1 <=> minutes > 40 * 60
            /\ Len(v) = 1 =>
                  /\ v[1].type = "MAX_WEEKLY_HOURS"
                  /\ v[1].severity = (IF minutes > 60 * 60 THEN "violation" ELSE "warning")
                  /\ v[1].details.limit = (IF minutes > 60 * 60 THEN 60 ELSE 40)
                  /\ v[1].details.date = weekStart
                  /\ Len(inWeek) > 0
                  /\ v[1].details.employeeId = inWeek[1].employeeId

\* C18: validateWeeklyHours adds up the hours of exactly the shifts dated
\* weekStart to weekStart + 6 days on the calendar, both days included, and
\* of no other shift: with more than 40 (60) hours in these shifts there is
\* a finding (a violation), with less than 40 (60) hours there is none (no
\* violation), and the total a finding reports is their total
C18_CalendarWeek ==
    result.op = "validateWeeklyHours" =>
        LET weekStart == result.arg[2]
            minutes   == SumWorked(InCalendarWeek(result.arg[1], weekStart))
            total     == ToDouble(Rat(minutes, 60))
            v         == result.value
        IN  /\ minutes > 40 * 60 => Len(v) = 1
            /\ minutes < 40 * 60 => Len(v) = 0
            /\ minutes > 60 * 60 => v[1].severity = "violation"
            /\ (minutes < 60 * 60 /\ Len(v) = 1) => v[1].severity = "warning"
            /\ Len(v) = 1 =>
                  /\ v[1].details.actual.a - total.a <= 1
                  /\ total.a - v[1].details.actual.a <= 1

\* C19: for a shift whose break is longer than the time from its start to
\* its end, calculateShiftHours returns the negative number (span - break)
\* / 60, not zero and not an error, and validateShift returns no finding
C19_NegativeHours ==
    /\ (result.op = "calculateShiftHours" /\ WorkedMinutes(result.arg) < 0) =>
          /\ result.value.den > 0
          /\ result.value.num < 0
          /\ result.value.num * 60 = WorkedMinutes(result.arg) * result.value.den
    /\ (result.op = "validateShift" /\ WorkedMinutes(result.arg) < 0) =>
          result.value = << >>

\* a shift of one minute with a break of 30 minutes or more
C19_Witness ==
    /\ result.op = "calculateShiftHours"
    /\ ClockMinutes(result.arg.endTime) = ClockMinutes(result.arg.startTime) + 1
    /\ result.arg.breakMinutes >= 30
    /\ result.value.num < 0

\* what an operation returns on an argument when it runs alone
Alone(op, arg) ==
    CASE op = "calculateShiftHours"     -> calculateShiftHours(arg)
      [] op = "isNightWork"             -> isNightWork(arg)
      [] op = "validateShift"           -> validateShift(arg)
      [] op = "validateRestTime"        -> validateRestTime(arg)
      [] op = "validateWeeklyHours"     -> validateWeeklyHours(arg[1], arg[2])
      [] op = "validateConsecutiveDays" -> validateConsecutiveDays(arg)
      [] op = "checkFullCompliance"     -> checkFullCompliance(arg)

\* the shift list an operation was called on
ListOf(frame) ==
    IF frame.op = "validateWeeklyHours" THEN frame.arg[1] ELSE frame.arg

ListOps == { "validateRestTime", "validateWeeklyHours",
             "validateConsecutiveDays", "checkFullCompliance" }

\* C21: every operation is a pure function: two calls of one operation on
\* the same input have returned the same output, whatever calls were made
\* in between, and no step of any call changes the caller's shift list or
\* a shift record in it (validateRestTime sorts a copy)
C21_Pure ==
    /\ [](\A c, d \in Callers :
            ( /\ frames[c].pc = "done" /\ frames[d].pc = "done"
              /\ frames[c].op = frames[d].op
              /\ frames[c].arg = frames[d].arg )
            => frames[c].value = frames[d].value)
    /\ [](\A c \in Callers :
            (frames[c].op \in ListOps) => ListOf(frames[c]) = shifts)
    /\ [][shifts' = shifts]_vars

\* both callers have called validateRestTime on the roster listed from the
\* last day to the first, the second after the first had returned, and
\* both have the same findings
C21_Witness ==
    /\ frames["c1"].pc = "done" /\ frames["c2"].pc = "done"
    /\ frames["c1"].op = "validateRestTime"
    /\ frames["c2"].op = "validateRestTime"
    /\ Len(shifts) >= 3
    /\ DayOfYear(shifts[1].date) > DayOfYear(shifts[2].date)
    /\ frames["c1"].arg = shifts
    /\ frames["c2"].arg = shifts
    /\ Len(frames["c1"].value) > 0
    /\ frames["c1"].value = frames["c2"].value

\* C22: with the steps of the callers interleaved in any order, every call
\* returns what the operation returns on its argument when it runs alone
C22_Interleaving ==
    \A c \in Callers :
        frames[c].pc = "done" => frames[c].value = Alone(frames[c].op, frames[c].arg)

\* a call of validateRestTime has returned its finding while a call of
\* validateConsecutiveDays of the other caller, which has pushed a finding
\* of its own, has not yet returned
C22_Witness ==
    \E c, d \in Callers :
        /\ frames[c].pc = "done"
        /\ frames[c].op = "validateRestTime"
        /\ Len(frames[c].value) > 0
        /\ frames[d].pc = "daysLoop"
        /\ Len(frames[d].violations) > 0
        /\ frames[d].violations # frames[c].value

(***************************************************************************)
(* The rule object                                                         *)
(***************************************************************************)
\* the findings of the last call: the list a validator returned or the
\* violations of a report
Findings ==
    IF result.op = "checkFullCompliance" THEN result.value.violations
    ELSE IF result.op \in { "validateShift", "validateRestTime",
                            "validateWeeklyHours", "validateConsecutiveDays" }
         THEN result.value
         ELSE << >>

\* the limit a finding of the given type and severity carries
LimitOf(type, severity) ==
    CASE type = "MAX_DAILY_HOURS"  -> 12
      [] type = "NIGHT_WORK_LIMIT" -> 10
      [] type = "MISSING_BREAK"    -> 30
      [] type = "MIN_REST_TIME"    -> 11
      [] type = "CONSECUTIVE_DAYS" -> 6
      [] type = "MAX_WEEKLY_HOURS" -> (IF severity = "violation" THEN 60 ELSE 40)

\* C23: in every reachable state the rule object holds min rest 11, max
\* daily 12, normal weekly 40, max weekly 60, night window 22 to 5, max
\* night shift 10, break threshold 6, min break 30 and max consecutive
\* days 6 (no operation writes it), and the details.limit of every finding
\* is the one of these values that belongs to its type
C23_RulesFixed ==
    /\ AZG_RULES.MIN_DAILY_REST_HOURS = 11
    /\ AZG_RULES.MAX_DAILY_HOURS = 12
    /\ AZG_RULES.NORMAL_DAILY_HOURS = 8
    /\ AZG_RULES.NORMAL_WEEKLY_HOURS = 40
    /\ AZG_RULES.AVG_WEEKLY_MAX_HOURS = 48
    /\ AZG_RULES.AVERAGING_PERIOD_WEEKS = 17
    /\ AZG_RULES.MAX_WEEKLY_HOURS = 60
    /\ AZG_RULES.NIGHT_WORK_START = 22
    /\ AZG_RULES.NIGHT_WORK_END = 5
    /\ AZG_RULES.MAX_NIGHT_SHIFT_HOURS = 10
    /\ AZG_RULES.BREAK_THRESHOLD_HOURS = 6
    /\ AZG_RULES.MIN_BREAK_MINUTES = 30
    /\ AZG_RULES.MAX_CONSECUTIVE_WORK_DAYS = 6
    /\ \A k \in 1..Len(Findings) :
          Findings[k].details.limit
              = LimitOf(Findings[k].type, Findings[k].severity)

\* after a report that carries findings of the daily maximum, the night
\* limit, the break and the rest time, and after a weekly warning, the rule
\* object still holds its values
C23_Witness ==
    /\ AZG_RULES = RuleValues
    /\ \/ /\ IsReport
          /\ \A type \in { "MAX_DAILY_HOURS", "NIGHT_WORK_LIMIT",
                            "MISSING_BREAK", "MIN_REST_TIME" } :
                \E k \in 1..Len(Findings) : Findings[k].type = type
          /\ Len(shifts) = MaxShifts
       \/ /\ result.op = "validateWeeklyHours"
          /\ Len(Findings) = 1
          /\ Findings[1].details.limit = 40

(***************************************************************************)
(* The daily maximum and the night limit of one shift                      *)
(***************************************************************************)
\* every MAX_DAILY_HOURS finding of the list is directly followed by a
\* NIGHT_WORK_LIMIT finding for the same date and employee
DailyThenNight(findings) ==
    \A k \in WithType(findings, "MAX_DAILY_HOURS") :
        /\ k < Len(findings)
        /\ findings[k + 1].type = "NIGHT_WORK_LIMIT"
        /\ findings[k + 1].details.date = findings[k].details.date
        /\ findings[k + 1].details.employeeId = findings[k].details.employeeId
        /\ findings[k + 1].details.actual = findings[k].details.actual

\* C24: for a shift that isNightWork holds of, every MAX_DAILY_HOURS
\* finding of validateShift is directly followed by the NIGHT_WORK_LIMIT
\* finding of the same shift, and the report of the shift scores at most
\* 60; a night shift that worked more than 10 and at most 12 hours gets
\* NIGHT_WORK_LIMIT without MAX_DAILY_HOURS
C24_DailyImpliesNight ==
    /\ (IsShiftCheck /\ isNightWork(result.arg)) =>
          /\ DailyThenNight(result.value)
          /\ WorkedMinutes(result.arg) > 720
                => WithType(result.value, "MAX_DAILY_HOURS") # {}
          /\ (WorkedMinutes(result.arg) > 600 /\ WorkedMinutes(result.arg) <= 720)
                => /\ WithType(result.value, "NIGHT_WORK_LIMIT") # {}
                   /\ WithType(result.value, "MAX_DAILY_HOURS") = {}
    /\ (IsReport /\ isNightWork(result.arg[1])) =>
          /\ DailyThenNight(result.value.violations)
          /\ WithType(result.value.violations, "MAX_DAILY_HOURS") # {}
                => result.value.score <= 60

\* the report of the night shift 20:00-09:30 with a break of 30 minutes
\* (13 h) carries the two findings and nothing else, and scores 60
C24_Witness ==
    /\ IsReport
    /\ isNightWork(result.arg[1])
    /\ result.arg[1].startTime = <<20, 0>>
    /\ result.arg[1].endTime = <<9, 30>>
    /\ result.arg[1].breakMinutes = 30
    /\ Len(result.value.violations) = 2
    /\ result.value.violations[1].type = "MAX_DAILY_HOURS"
    /\ result.value.violations[2].type = "NIGHT_WORK_LIMIT"
    /\ result.value.score = 60

(***************************************************************************)
(* A shift that ends at the minute it starts                               *)
(***************************************************************************)
\* C27: the end is taken on the next day only when it is strictly before
\* the start: for a shift whose endTime equals its startTime
\* calculateShiftHours returns -breakMinutes / 60 (a span of 0 minutes, not
\* of 24 hours) and validateShift returns no finding, and for every shift
\* with a break of 0 or more the worked time is at most 1439 minutes
C27_StrictWrap ==
    /\ result.op = "calculateShiftHours" =>
          /\ result.value.den > 0
          /\ result.arg.endTime = result.arg.startTime
                => result.value.num * 60
                      = (0 - result.arg.breakMinutes) * result.value.den
          /\ result.arg.breakMinutes >= 0
                => result.value.num * 60 <= 1439 * result.value.den
    /\ (result.op = "validateShift"
          /\ result.arg.endTime = result.arg.startTime) =>
          result.value = << >>

\* the hours of the shift 22:00-22:00 with a break of 30 minutes, and those
\* of the longest shift, 00:00-23:59 without break
C27_Witness ==
    /\ result.op = "calculateShiftHours"
    /\ \/ /\ result.arg.startTime = <<22, 0>>
          /\ result.arg.endTime = <<22, 0>>
          /\ result.arg.breakMinutes = 30
          /\ result.value.num < 0
       \/ /\ result.arg.startTime = <<0, 0>>
          /\ result.arg.endTime = <<23, 59>>
          /\ result.arg.breakMinutes = 0
          /\ result.value.num * 60 = 1439 * result.value.den

(***************************************************************************)
(* The per-shift checks within a roster                                    *)
(***************************************************************************)
\* a shift with the same times and break, of no date and nobody
Anonymous(shift) ==
    [shift EXCEPT !.id = 0, !.date = <<2000, 1, 1>>, !.employeeId = "nobody"]

\* findings with the date and the employee of a shift written into them
Relabel(findings, shift) ==
    [ k \in 1..Len(findings) |->
        [findings[k] EXCEPT !.details.date = shift.date,
                            !.details.employeeId = shift.employeeId] ]

\* what validateShift finds for the times and breaks of list[1..n], labelled
\* with the dates and employees of the shifts
RECURSIVE ShiftBlocks(_, _)
ShiftBlocks(list, n) ==
    IF n = 0 THEN << >>
    ELSE ShiftBlocks(list, n - 1)
            \o Relabel(validateShift(Anonymous(list[n])), list[n])

\* C25: what validateShift finds depends on startTime, endTime and
\* breakMinutes alone, date and employeeId being copied into the details;
\* the daily maximum is held against each shift by itself: a report
\* carries one MAX_DAILY_HOURS finding for every shift that worked more than
\* 12 hours and none for shifts of one date and employee that only together
\* worked more than 12 hours
C25_PerShift ==
    IsReport =>
        LET own == ShiftBlocks(result.arg, Len(result.arg))
            all == result.value.violations
        IN  /\ Len(own) <= Len(all)
            /\ SubSeq(all, 1, Len(own)) = own
            /\ Cardinality(WithType(all, "MAX_DAILY_HOURS"))
                  = Cardinality({ k \in 1..Len(result.arg) :
                                    WorkedMinutes(result.arg[k]) > 720 })
            /\ \A k \in WithType(all, "MAX_DAILY_HOURS") :
                  \E j \in 1..Len(result.arg) :
                      /\ result.arg[j].date = all[k].details.date
                      /\ result.arg[j].employeeId = all[k].details.employeeId
                      /\ WorkedMinutes(result.arg[j]) > 720

\* the report of a roster in which an employee has two shifts of 8 hours on
\* one date carries no MAX_DAILY_HOURS finding
C25_Witness ==
    /\ IsReport
    /\ WithType(result.value.violations, "MAX_DAILY_HOURS") = {}
    /\ \E i, j \in 1..Len(result.arg) :
          /\ i # j
          /\ result.arg[i].date = result.arg[j].date
          /\ result.arg[i].employeeId = result.arg[j].employeeId
          /\ WorkedMinutes(result.arg[i]) <= 720
          /\ WorkedMinutes(result.arg[j]) <= 720
          /\ WorkedMinutes(result.arg[i]) + WorkedMinutes(result.arg[j]) > 720

(***************************************************************************)
(* Shifts that start before the shift before them has ended                *)
(***************************************************************************)
\* minutes from the end of a's work to b's start on calendar and clock: the
\* end of a shift that crosses midnight lies on the day after its date
RestAfterWork(a, b) ==
    WallClockRest(a, b)
        - (IF ClockMinutes(a.endTime) < ClockMinutes(a.startTime) THEN 1440 ELSE 0)

\* the place in the findings of the pair (ordered[i], ordered[i + 1]): the
\* number of pairs up to it that rest less than 11 hours
RestFindingAt(ordered, i) ==
    Cardinality({ j \in 1..i : ElapsedRest(ordered[j], ordered[j + 1]) < 11 * 60 })

\* the finding at place k reports the rest of a and b, in hours
ReportsRest(findings, k, a, b) ==
    /\ k \in 1..Len(findings)
    /\ findings[k].type = "MIN_REST_TIME"
    /\ findings[k].details.date = b.date
    /\ findings[k].details.employeeId = a.employeeId
    /\ findings[k].details.actual.den > 0
    /\ findings[k].details.actual.num * 60
          = ElapsedRest(a, b) * findings[k].details.actual.den

\* C26 as stated: for every pair (a, b) adjacent in the sorted order whose
\* shifts overlap or start at the same time on the same date, the computed
\* rest is negative or zero and validateRestTime returns a MIN_REST_TIME
\* finding with that number as details.actual
C26_OverlapNonPositive ==
    result.op = "validateRestTime" =>
        LET ordered == InOrder(result.arg)
        IN  \A i \in 1..(Len(ordered) - 1) :
                ( \/ RestAfterWork(ordered[i], ordered[i + 1]) < 0
                  \/ /\ ordered[i].date = ordered[i + 1].date
                     /\ ordered[i].startTime = ordered[i + 1].startTime )
                => /\ ElapsedRest(ordered[i], ordered[i + 1]) <= 0
                   /\ ReportsRest(result.value, RestFindingAt(ordered, i),
                                  ordered[i], ordered[i + 1])

\* C26: for every pair (a, b) adjacent in the sorted order in which b does
\* not start after the instant a.date, a.endTime, the computed rest is
\* negative or zero and validateRestTime returns a MIN_REST_TIME finding
\* with that number as details.actual; it returns findings of no other type
C26_LiteralEnd ==
    result.op = "validateRestTime" =>
        LET ordered == InOrder(result.arg)
        IN  /\ \A i \in 1..(Len(ordered) - 1) :
                  WallClockRest(ordered[i], ordered[i + 1]) <= 0
                  => /\ ElapsedRest(ordered[i], ordered[i + 1]) <= 0
                     /\ ReportsRest(result.value, RestFindingAt(ordered, i),
                                    ordered[i], ordered[i + 1])
                     /\ result.value[RestFindingAt(ordered, i)].details.actual.num <= 0
            /\ \A k \in 1..Len(result.value) : result.value[k].type = "MIN_REST_TIME"

\* two shifts 08:00-16:00 on one date: a finding with a rest of -8 hours
C26_Witness ==
    /\ result.op = "validateRestTime"
    /\ \E i \in 1..(Len(result.arg) - 1) :
          LET ordered == InOrder(result.arg)
          IN  /\ ordered[i].date = ordered[i + 1].date
              /\ ordered[i].startTime = <<8, 0>>
              /\ ordered[i + 1].startTime = <<8, 0>>
              /\ ordered[i].endTime = <<16, 0>>
              /\ ReportsRest(result.value, RestFindingAt(ordered, i),
                             ordered[i], ordered[i + 1])
              /\ result.value[RestFindingAt(ordered, i)].details.actual.num < 0

(***************************************************************************)
(* Rosters of several employees                                            *)
(***************************************************************************)
\* the list with every shift entered for one employee
OneEmployee(list) ==
    [ k \in 1..Len(list) |-> [list[k] EXCEPT !.employeeId = "e1"] ]

\* the findings without the employee they name
Unsigned(findings) ==
    [ k \in 1..Len(findings) |-> [findings[k] EXCEPT !.details.employeeId = "e1"] ]

\* C28: validateRestTime, validateConsecutiveDays and checkFullCompliance
\* neither filter nor group by employeeId: but for the employee named they
\* find for a list of several employees what they find for the same shifts
\* of one employee; validateRestTime compares shifts of different employees
\* that are adjacent in the sorted order and names the employee of the
\* earlier one, and validateConsecutiveDays counts the dates of all
\* employees in one run and names the employee of the first list element
C28_NoGrouping ==
    /\ result.op = "validateRestTime" =>
          /\ Unsigned(result.value) = validateRestTime(OneEmployee(result.arg))
          /\ Headlines(result.value) = ShortRests(InOrder(result.arg), 1)
    /\ result.op = "validateConsecutiveDays" =>
          /\ Unsigned(result.value) = validateConsecutiveDays(OneEmployee(result.arg))
          /\ \A k \in 1..Len(result.value) :
                result.value[k].details.employeeId = result.arg[1].employeeId
    /\ IsReport =>
          Unsigned(result.value.violations)
              = checkFullCompliance(OneEmployee(result.arg)).violations

\* the shift of one employee and the shift of another one follow each other
\* with less than 11 hours of rest: a finding that names the first employee
C28_Witness ==
    /\ result.op = "validateRestTime"
    /\ \E i \in 1..(Len(result.arg) - 1) :
          LET ordered == InOrder(result.arg)
          IN  /\ ordered[i].employeeId # ordered[i + 1].employeeId
              /\ ElapsedRest(ordered[i], ordered[i + 1]) < 11 * 60
              /\ ReportsRest(result.value, RestFindingAt(ordered, i),
                             ordered[i], ordered[i + 1])

(***************************************************************************)
(* The numbers a finding carries                                           *)
(***************************************************************************)
\* the number r is the quotient n / d of integers (d > 0)
IsQuotient(r, n, d) == r.den > 0 /\ r.num * d = n * r.den

\* the shifts of a list that a finding can be about: those of its date and
\* its employee
ShiftsOf(list, finding) ==
    { j \in 1..Len(list) : /\ list[j].date = finding.details.date
                           /\ list[j].employeeId = finding.details.employeeId }

\* C30: in every finding of a report details.limit is the threshold of the
\* check and details.actual the quantity measured against it: the worked
\* hours of the shift for MAX_DAILY_HOURS (limit 12) and NIGHT_WORK_LIMIT
\* (limit 10), both greater than the limit; the rest hours of an adjacent
\* pair for MIN_REST_TIME (limit 11), less than the limit; the length of
\* the run of days for CONSECUTIVE_DAYS (limit 6), greater than the limit;
\* the breakMinutes of the shift, not its worked hours, for MISSING_BREAK
\* (limit 30), less than the limit
C30_ActualAndLimit ==
    IsReport =>
        \A k \in 1..Len(result.value.violations) :
            LET finding == result.value.violations[k]
                actual  == finding.details.actual
                limit   == finding.details.limit
                ordered == InOrder(result.arg)
            IN  /\ actual.den > 0
                /\ finding.type = "MAX_DAILY_HOURS" =>
                      /\ limit = 12
                      /\ Gt(actual, limit)
                      /\ \E j \in ShiftsOf(result.arg, finding) :
                            IsQuotient(actual, WorkedMinutes(result.arg[j]), 60)
                /\ finding.type = "NIGHT_WORK_LIMIT" =>
                      /\ limit = 10
                      /\ Gt(actual, limit)
                      /\ \E j \in ShiftsOf(result.arg, finding) :
                            IsQuotient(actual, WorkedMinutes(result.arg[j]), 60)
                /\ finding.type = "MISSING_BREAK" =>
                      /\ limit = 30
                      /\ Lt(actual, limit)
                      /\ \E j \in ShiftsOf(result.arg, finding) :
                            /\ IsQuotient(actual, result.arg[j].breakMinutes, 1)
                            /\ WorkedMinutes(result.arg[j]) > 360
                /\ finding.type = "MIN_REST_TIME" =>
                      /\ limit = 11
                      /\ Lt(actual, limit)
                      /\ \E i \in 1..(Len(ordered) - 1) :
                            /\ ordered[i].employeeId = finding.details.employeeId
                            /\ ordered[i + 1].date = finding.details.date
                            /\ IsQuotient(actual,
                                          ElapsedRest(ordered[i], ordered[i + 1]), 60)
                /\ finding.type = "CONSECUTIVE_DAYS" =>
                      /\ limit = 6
                      /\ Gt(actual, limit)
                      /\ actual.den = 1
                      /\ actual.num <= Cardinality(DaysWorked(result.arg))
                /\ finding.type \in { "MAX_DAILY_HOURS", "NIGHT_WORK_LIMIT",
                                      "MISSING_BREAK", "MIN_REST_TIME",
                                      "CONSECUTIVE_DAYS" }

\* a report with findings of all five types, the MISSING_BREAK finding for
\* a shift of 8 hours without break
C30_Witness ==
    /\ IsReport
    /\ \A type \in { "MAX_DAILY_HOURS", "NIGHT_WORK_LIMIT", "MISSING_BREAK",
                      "MIN_REST_TIME", "CONSECUTIVE_DAYS" } :
          WithType(result.value.violations, type) # {}
    /\ \E k \in WithType(result.value.violations, "MISSING_BREAK") :
          /\ result.value.violations[k].details.actual.num = 0
          /\ \E j \in ShiftsOf(result.arg, result.value.violations[k]) :
                WorkedMinutes(result.arg[j]) = 480

(***************************************************************************)
(* The order of the input                                                  *)
(***************************************************************************)
\* no two shifts of the list have the same date and startTime
DistinctStarts(list) ==
    \A i, j \in 1..Len(list) :
        (i # j) => \/ list[i].date # list[j].date
                   \/ list[i].startTime # list[j].startTime

\* C29: for a list in which no two shifts have the same date and startTime
\* validateRestTime returns what it returns for the same shifts passed in
\* ascending order of (date, startTime), hence the same for every order of
\* the input; validateConsecutiveDays returns findings of the same dates
\* and details.actual in the same order as for the ascending list, with the
\* employeeId of the first element of its input
C29_InputOrder ==
    /\ (result.op = "validateRestTime" /\ DistinctStarts(result.arg)) =>
          result.value = validateRestTime(InOrder(result.arg))
    /\ result.op = "validateConsecutiveDays" =>
          /\ Unsigned(result.value)
                = Unsigned(validateConsecutiveDays(InOrder(result.arg)))
          /\ \A k \in 1..Len(result.value) :
                result.value[k].details.employeeId = result.arg[1].employeeId

\* validateRestTime has returned three findings or more for shifts passed
\* with the latest one first and the earliest one not second
C29_Witness ==
    /\ result.op = "validateRestTime"
    /\ DistinctStarts(result.arg)
    /\ Len(result.value) >= 3
    /\ result.arg[1] = InOrder(result.arg)[Len(result.arg)]
    /\ result.arg[2] # InOrder(result.arg)[1]
    /\ result.arg # InOrder(result.arg)
====
